---- MODULE Spec2Model ----
(***************************************************************************)
(* Receipts-root computation of erigontech/rpc-tests:                      *)
(*   rpctests/eth/trie/mpt.py      compute_trie_root                       *)
(*   rpctests/eth/trie/receipt.py  ReceiptValue.encode,                    *)
(*                                 compute_receipts_root                   *)
(* together with the behaviour of the library calls they make              *)
(* (rlp.encode, hexbytes.HexBytes, trie.HexaryTrie, keccak256).            *)
(* Byte strings are sequences over 0..255, nibble paths sequences over     *)
(* 0..15.                                                                  *)
(***************************************************************************)
EXTENDS Integers, Sequences, FiniteSets, TLC

\* ------------------------------------------------------------- bounds
\* longest receipt list drawn from the receipt alphabet
MaxLen == 2
\* length of the one long receipt list (indices beyond 127 need two key bytes)
LongLen == 130

\* highest block number the node serves
MaxBlock == 2

\* get_block calls a scan makes at most
MaxFetches == 3
\* calls on one websocket Client
MaxCalls == 3
\* payloads of every length up to this one are encoded
MaxPayload == 58
\* nibbles of the longest path that is hex-prefix encoded
MaxNibbles == 4
\* lines of the interface log that is replayed
MaxLines == 3

\* ------------------------------------------------------------- keccak256
\* A 64-bit lane is the set of its one-bits (bit 0 = least significant).
Xor(a, b) == (a \ b) \cup (b \ a)

Rol(a, n) == {(i + n) % 64 : i \in a}

\* the sequence f with every element worked out
Eager(f) == f \o <<>>

RC == <<{0}, {1,7,15}, {1,3,7,15,63}, {15,31,63}, {0,1,3,7,15}, {0,31},
        {0,7,15,31,63}, {0,3,15,63}, {1,3,7}, {3,7}, {0,3,15,31}, {1,3,31},
        {0,1,3,7,15,31}, {0,1,3,7,63}, {0,3,7,15,63}, {0,1,15,63}, {1,15,63},
        {7,63}, {1,3,15}, {1,3,31,63}, {0,7,15,31,63}, {7,15,63}, {0,31},
        {3,15,31,63}>>

\* rotation offsets, lane (x, y) at position x + 5*y + 1
ROT == <<0, 1, 62, 28, 27, 36, 44, 6, 55, 20, 3, 10, 43,
         25, 39, 41, 45, 15, 21, 8, 18, 2, 61, 56, 14>>

\* one round of Keccak-f[1600]: theta, rho and pi, chi, iota
KeccakRound(A, r) ==
  LET C == Eager([cx \in 1..5 |->
                    Xor(Xor(Xor(Xor(A[cx], A[cx+5]), A[cx+10]), A[cx+15]), A[cx+20])])
      D == Eager([cx \in 1..5 |-> Xor(C[((cx+3) % 5) + 1], Rol(C[(cx % 5) + 1], 1))])
      T == Eager([i \in 1..25 |-> Xor(A[i], D[((i-1) % 5) + 1])])
      B == Eager([i \in 1..25 |->
                    LET bx == (i-1) % 5
                        by == (i-1) \div 5
                        sx == (bx + 3*by) % 5
                    IN Rol(T[sx + 5*bx + 1], ROT[sx + 5*bx + 1])])
      H == Eager([i \in 1..25 |->
                    LET bx == (i-1) % 5
                        by == (i-1) \div 5
                    IN Xor(B[i], B[((bx+2) % 5) + 5*by + 1] \ B[((bx+1) % 5) + 5*by + 1])])
  IN [H EXCEPT ![1] = Xor(H[1], RC[r])]

RECURSIVE KeccakF(_, _)
KeccakF(A, r) ==
  IF r > Len(RC) \/ Len(A) # 25 THEN A ELSE KeccakF(KeccakRound(A, r), r + 1)

ByteBits(b) == {k \in 0..7 : (b \div (2^k)) % 2 = 1}

\* lane i (0-based) of a 136-byte block, little-endian
LaneOf(block, i) == UNION {{8*j + k : k \in ByteBits(block[8*i + j + 1])} : j \in 0..7}

Absorb(A, block) ==
  Eager([i \in 1..25 |-> IF i <= 17 THEN Xor(A[i], LaneOf(block, i-1)) ELSE A[i]])

\* Keccak padding 0x01 .. 0x80 to a multiple of the 136-byte rate
Pad(msg) ==
  LET padlen == 136 - (Len(msg) % 136)
  IN msg \o (IF padlen = 1 THEN <<129>>
             ELSE <<1>> \o Eager([i \in 1..(padlen-2) |-> 0]) \o <<128>>)

RECURSIVE Sponge(_, _)
Sponge(A, p) ==
  IF p = <<>> \/ Len(A) # 25 THEN A
  ELSE Sponge(KeccakF(Absorb(A, SubSeq(p, 1, 136)), 1), SubSeq(p, 137, Len(p)))

ByteOf(lane, j) ==
  LET w(k) == IF (8*j + k) \in lane THEN 2^k ELSE 0
  IN w(0) + w(1) + w(2) + w(3) + w(4) + w(5) + w(6) + w(7)

keccak256(msg) ==
  LET A == Sponge([i \in 1..25 |-> {}], Pad(msg))
  IN Eager([k \in 1..32 |-> ByteOf(A[((k-1) \div 8) + 1], (k-1) % 8)])

\* ------------------------------------------------------------- RLP
RECURSIVE big_endian(_)
\* minimal big-endian bytes of n >= 0 (0 is the empty string)
big_endian(n) == IF n = 0 THEN <<>> ELSE Append(big_endian(n \div 256), n % 256)

\* faulty encode_length: the short form is kept for a length of 56
encode_length_short_to_56(len, offset) ==
  IF len <= 56 THEN <<offset + len>>
  ELSE <<offset + 55 + Len(big_endian(len))>> \o big_endian(len)

\* length header: offset + len up to 55, else offset + 55 + len(len), len
encode_length(len, offset) ==
  IF len <= 55 THEN <<offset + len>>
  ELSE <<offset + 55 + Len(big_endian(len))>> \o big_endian(len)

\* rlp.encode of a byte string (sedes binary)
encode_bytes(b) ==
  IF Len(b) = 1 /\ b[1] < 128 THEN b ELSE encode_length(Len(b), 128) \o b

\* rlp.encode of a non-negative integer (sedes big_endian_int)
encode_uint(n) == encode_bytes(big_endian(n))

RECURSIVE Concat(_)
Concat(items) == IF items = <<>> THEN <<>> ELSE Head(items) \o Concat(Tail(items))

\* rlp.encode of a list whose items are given already encoded
encode_list(items) ==
  LET payload == Concat(items) IN encode_length(Len(payload), 192) \o payload

\* ------------------------------------------------------------- trie nodes
bytes_to_nibbles(b) ==
  Eager([i \in 1..(2 * Len(b)) |->
           IF i % 2 = 1 THEN b[(i+1) \div 2] \div 16 ELSE b[i \div 2] % 16])

\* faulty hex_prefix: the leaf flag is left out
hex_prefix_no_leaf_flag(nibbles, is_leaf) ==
  LET flag == Len(nibbles) % 2
      padded == IF Len(nibbles) % 2 = 1 THEN <<flag>> \o nibbles
                ELSE <<flag, 0>> \o nibbles
  IN Eager([i \in 1..(Len(padded) \div 2) |-> 16 * padded[2*i - 1] + padded[2*i]])

\* faulty hex_prefix: the bytes after the first hold their low nibble first
hex_prefix_low_nibble_first(nibbles, is_leaf) ==
  LET flag == 2 * (IF is_leaf THEN 1 ELSE 0) + (Len(nibbles) % 2)
      padded == IF Len(nibbles) % 2 = 1 THEN <<flag>> \o nibbles
                ELSE <<flag, 0>> \o nibbles
  IN Eager([i \in 1..(Len(padded) \div 2) |->
              IF i = 1 THEN 16 * padded[1] + padded[2]
              ELSE padded[2*i - 1] + 16 * padded[2*i]])

\* compact (hex-prefix) encoding of a nibble path
hex_prefix(nibbles, is_leaf) ==
  LET flag == 2 * (IF is_leaf THEN 1 ELSE 0) + (Len(nibbles) % 2)
      padded == IF Len(nibbles) % 2 = 1 THEN <<flag>> \o nibbles
                ELSE <<flag, 0>> \o nibbles
  IN Eager([i \in 1..(Len(padded) \div 2) |-> 16 * padded[2*i - 1] + padded[2*i]])

BLANK_NODE == [kind |-> "blank", path |-> <<>>, value |-> <<>>, sub |-> <<>>]

Leaf(path, value) == [kind |-> "leaf", path |-> path, value |-> value, sub |-> <<>>]

Extension(path, child) ==
  [kind |-> "extension", path |-> path, value |-> <<>>, sub |-> <<child>>]

Branch(children, value) ==
  [kind |-> "branch", path |-> <<>>, value |-> value, sub |-> children]

NoChildren == [i \in 1..16 |-> BLANK_NODE]

RECURSIVE serialize(_)
\* faulty child_ref_encoded: a child of exactly 32 bytes is still embedded
child_ref_encoded_embedding_32(node) ==
  IF node.kind = "blank" THEN encode_bytes(<<>>)
  ELSE LET s == serialize(node)
       IN IF Len(s) <= 32 THEN s ELSE encode_bytes(keccak256(s))

\* how a parent refers to a child: the child's RLP when short, else its hash
child_ref_encoded(node) ==
  IF node.kind = "blank" THEN encode_bytes(<<>>)
  ELSE LET s == serialize(node)
       IN IF Len(s) < 32 THEN s ELSE encode_bytes(keccak256(s))

\* RLP of a node
serialize(node) ==
  CASE node.kind = "blank" -> encode_bytes(<<>>)
    [] node.kind = "leaf" ->
         encode_list(<<encode_bytes(hex_prefix(node.path, TRUE)),
                       encode_bytes(node.value)>>)
    [] node.kind = "extension" ->
         encode_list(<<encode_bytes(hex_prefix(node.path, FALSE)),
                       child_ref_encoded(node.sub[1])>>)
    [] node.kind = "branch" ->
         encode_list(Eager([i \in 1..17 |->
                        IF i <= 16 THEN child_ref_encoded(node.sub[i])
                        ELSE encode_bytes(node.value)]))

\* faulty root_hash: the blank root hashed as the empty string, not as RLP
root_hash_blank_unencoded(node) ==
  IF node.kind = "blank" THEN keccak256(<<>>) ELSE keccak256(serialize(node))

\* faulty root_hash: a short root node is referred to like a child, inline
root_hash_embedding_short(node) ==
  LET s == serialize(node) IN IF Len(s) < 32 THEN s ELSE keccak256(s)

\* HexaryTrie.root_hash: the root is always hashed, never embedded
root_hash(node) == keccak256(serialize(node))

\* faulty common_prefix_len: no prefix is ever found to be shared
common_prefix_len_none(a, b) == 0

RECURSIVE common_prefix_len(_, _)
common_prefix_len(a, b) ==
  IF a = <<>> \/ b = <<>> \/ Head(a) # Head(b) THEN 0
  ELSE 1 + common_prefix_len(Tail(a), Tail(b))

Rest(s, n) == SubSeq(s, n + 1, Len(s))

RECURSIVE trie_set(_, _, _)
\* faulty set_kv_node: an extension is put over the new node even when the
\* paths share nothing
set_kv_node_extension_always(node, trie_key, value) ==
  LET c == common_prefix_len(node.path, trie_key)
      current_key_remainder == Rest(node.path, c)
      trie_key_remainder == Rest(trie_key, c)
      is_extension == node.kind = "extension"
      moved == IF is_extension /\ Len(current_key_remainder) = 1 THEN node.sub[1]
               ELSE IF is_extension
                    THEN Extension(Tail(current_key_remainder), node.sub[1])
                    ELSE Leaf(Tail(current_key_remainder), node.value)
      split == IF trie_key_remainder = <<>>
               THEN Branch([NoChildren EXCEPT ![current_key_remainder[1] + 1] = moved],
                           value)
               ELSE Branch([NoChildren EXCEPT
                              ![current_key_remainder[1] + 1] = moved,
                              ![trie_key_remainder[1] + 1] =
                                  Leaf(Tail(trie_key_remainder), value)],
                           <<>>)
      new_node ==
        IF current_key_remainder = <<>>
        THEN IF is_extension THEN trie_set(node.sub[1], trie_key_remainder, value)
             ELSE Branch([NoChildren EXCEPT
                            ![trie_key_remainder[1] + 1] =
                                Leaf(Tail(trie_key_remainder), value)],
                         node.value)
        ELSE split
  IN IF current_key_remainder = <<>> /\ trie_key_remainder = <<>> /\ ~is_extension
     THEN Leaf(node.path, value)
     ELSE Extension(SubSeq(trie_key, 1, c), new_node)

\* insert into a leaf or an extension
set_kv_node(node, trie_key, value) ==
  LET c == common_prefix_len(node.path, trie_key)
      current_key_remainder == Rest(node.path, c)
      trie_key_remainder == Rest(trie_key, c)
      is_extension == node.kind = "extension"
      moved == IF is_extension /\ Len(current_key_remainder) = 1 THEN node.sub[1]
               ELSE IF is_extension
                    THEN Extension(Tail(current_key_remainder), node.sub[1])
                    ELSE Leaf(Tail(current_key_remainder), node.value)
      split == IF trie_key_remainder = <<>>
               THEN Branch([NoChildren EXCEPT ![current_key_remainder[1] + 1] = moved],
                           value)
               ELSE Branch([NoChildren EXCEPT
                              ![current_key_remainder[1] + 1] = moved,
                              ![trie_key_remainder[1] + 1] =
                                  Leaf(Tail(trie_key_remainder), value)],
                           <<>>)
      new_node ==
        IF current_key_remainder = <<>>
        THEN IF is_extension THEN trie_set(node.sub[1], trie_key_remainder, value)
             ELSE Branch([NoChildren EXCEPT
                            ![trie_key_remainder[1] + 1] =
                                Leaf(Tail(trie_key_remainder), value)],
                         node.value)
        ELSE split
  IN IF current_key_remainder = <<>> /\ trie_key_remainder = <<>> /\ ~is_extension
     THEN Leaf(node.path, value)
     ELSE IF c > 0 THEN Extension(SubSeq(trie_key, 1, c), new_node) ELSE new_node

\* faulty set_branch_node: the branch loses its value when a child is set
set_branch_node_clearing_value(node, trie_key, value) ==
  IF trie_key = <<>> THEN Branch(node.sub, value)
  ELSE Branch([node.sub EXCEPT
                 ![trie_key[1] + 1] = trie_set(@, Tail(trie_key), value)],
              <<>>)

\* faulty set_branch_node: a value the branch already holds is kept
set_branch_node_keeping_value(node, trie_key, value) ==
  IF trie_key = <<>>
  THEN (IF node.value = <<>> THEN Branch(node.sub, value) ELSE node)
  ELSE Branch([node.sub EXCEPT
                 ![trie_key[1] + 1] = trie_set(@, Tail(trie_key), value)],
              node.value)

\* faulty set_branch_node: an occupied slot is replaced, not descended into
set_branch_node_replacing(node, trie_key, value) ==
  IF trie_key = <<>> THEN Branch(node.sub, value)
  ELSE Branch([node.sub EXCEPT ![trie_key[1] + 1] = Leaf(Tail(trie_key), value)],
              node.value)

\* insert into a branch
set_branch_node(node, trie_key, value) ==
  IF trie_key = <<>> THEN Branch(node.sub, value)
  ELSE Branch([node.sub EXCEPT
                 ![trie_key[1] + 1] = trie_set(@, Tail(trie_key), value)],
              node.value)

\* HexaryTrie._set: the node that replaces `node` once (trie_key, value) is in
trie_set(node, trie_key, value) ==
  CASE node.kind = "blank" -> Leaf(trie_key, value)
    [] node.kind \in {"leaf", "extension"} -> set_kv_node(node, trie_key, value)
    [] node.kind = "branch" -> set_branch_node(node, trie_key, value)


\* EMPTY_TRIE_ROOT = trie.HexaryTrie.BLANK_NODE_HASH, 0x56e81f17...e363b421
EMPTY_TRIE_ROOT ==
  <<86, 232, 31, 23, 27, 204, 85, 166, 255, 131, 69, 230, 146, 192, 248, 110,
    91, 72, 224, 27, 153, 108, 173, 192, 1, 98, 47, 181, 227, 99, 180, 33>>

\* ------------------------------------------------------------- receipts
\* Python None
None == <<-1>>

\* a field given as a bytes object
Bytes(data) == [kind |-> "bytes", data |-> data]

\* a field given as a hexadecimal string; data are the digits after "0x"
HexStr(digits) == [kind |-> "str", data |-> digits]

\* hexbytes.HexBytes: bytes are kept, a hex string is parsed two digits per
\* byte after left-padding an odd number of digits with a zero digit
HexBytes(v) ==
  IF v.kind = "str"
  THEN LET padded == IF Len(v.data) % 2 = 1 THEN <<0>> \o v.data ELSE v.data
       IN Eager([i \in 1..(Len(padded) \div 2) |->
                   16 * padded[2*i - 1] + padded[2*i]])
  ELSE v.data

Zeros(n) == Eager([i \in 1..n |-> 0])

\* the receipt fields the encoding never reads, in two variants
OtherFields(variant) ==
  IF variant = 0
  THEN [blockHash |-> <<>>, blockNumber |-> 0, gasUsed |-> 0,
        contractAddress |-> None, effectiveGasPrice |-> 0, from |-> None,
        to |-> None, transactionHash |-> <<>>, transactionIndex |-> 0]
  ELSE [blockHash |-> <<171, 205>>, blockNumber |-> 5, gasUsed |-> 21000,
        contractAddress |-> <<192>>, effectiveGasPrice |-> 7, from |-> <<1>>,
        to |-> <<2>>, transactionHash |-> <<239>>, transactionIndex |-> 7]

TxReceipt(type, gas, bloom, logs, variant) ==
  [type |-> type, cumulativeGasUsed |-> gas, logsBloom |-> bloom, logs |-> logs]
    @@ OtherFields(variant)

\* a token-transfer log: 20-byte address, one 32-byte topic, 4 bytes of data
TransferLog ==
  [address |-> HexStr([i \in 1..40 |-> IF i % 2 = 1 THEN 13 ELSE 10]),
   topics |-> <<HexStr([i \in 1..64 |-> IF i = 1 THEN 13 ELSE 0])>>,
   data |-> HexStr(<<4, 10, 4, 8, 6, 7, 3, 8>>)]

\* a log whose address and topic have the wrong sizes
ShortLog ==
  [address |-> Bytes(<<218, 193>>), topics |-> <<Bytes(<<221>>)>>, data |-> Bytes(<<>>)]

\* the successful ETH transfer of the unit tests: 256-byte empty bloom, root
\* None as web3 reports it after Byzantium
ETH_TRANSFER_RECEIPT ==
  TxReceipt(0, 21000, Bytes(Zeros(256)), <<>>, 0) @@ [status |-> 1, root |-> None]

\* The receipts below carry a short bloom, which keeps their tries small.

\* successful legacy transfer
LegacyOk == TxReceipt(0, 21000, Bytes(Zeros(2)), <<>>, 0) @@ [status |-> 1, root |-> None]

\* EIP-1559 token transfer with one log, bloom given as a hex string
TypedTransfer ==
  TxReceipt(2, 63209, HexStr(<<0, 0, 1, 0>>), <<TransferLog>>, 0) @@ [status |-> 1]

\* pre-Byzantium receipt: state root, no status
PreByzantium ==
  TxReceipt(0, 21000, Bytes(Zeros(2)), <<>>, 1) @@ [root |-> [i \in 1..32 |-> 17]]

\* neither status nor root
NoDiscriminator == TxReceipt(0, 21000, Bytes(Zeros(2)), <<>>, 0)

\* a root that is None and no status
RootNone == TxReceipt(0, 21000, Bytes(Zeros(2)), <<>>, 0) @@ [root |-> None]

\* LegacyOk again, with other unread fields and a state root next to the status
LegacyOkAlias ==
  TxReceipt(0, 21000, Bytes(Zeros(2)), <<>>, 1)
    @@ [status |-> 1, root |-> [i \in 1..32 |-> 34]]

\* failed typed transaction; a log with a 2-byte address and a 1-byte topic
WrongSizes == TxReceipt(2, 1, Bytes(<<0>>), <<ShortLog>>, 0) @@ [status |-> 0]

Receipts == {LegacyOk, TypedTransfer, PreByzantium, NoDiscriminator,
             LegacyOkAlias, WrongSizes}

\* outcome of a call that can raise
Ok(value) == [ok |-> TRUE, value |-> value, error |-> ""]

Err(name) == [ok |-> FALSE, value |-> <<>>, error |-> name]

\* the RLP of receipt['logs'] converted to [address, [topics], data] lists
logs_list(receipt) ==
  encode_list(Eager([i \in 1..Len(receipt.logs) |->
    LET log == receipt.logs[i]
    IN encode_list(<<encode_bytes(HexBytes(log.address)),
                     encode_list(Eager([j \in 1..Len(log.topics) |->
                                          encode_bytes(HexBytes(log.topics[j]))])),
                     encode_bytes(HexBytes(log.data))>>)]))

\* faulty with_type: the typed value wrapped as an RLP byte string
with_type_wrapped(receipt, value) ==
  IF receipt.type # 0 THEN encode_bytes(<<receipt.type>> \o value) ELSE value

\* the non-legacy type byte goes in front of the RLP, unwrapped
with_type(receipt, value) ==
  IF receipt.type # 0 THEN <<receipt.type>> \o value ELSE value

\* faulty value_list: gasUsed in the place of cumulativeGasUsed
value_list_gas_used(receipt, first) ==
  encode_list(<<first, encode_uint(receipt.gasUsed),
                encode_bytes(HexBytes(receipt.logsBloom)), logs_list(receipt)>>)

\* rlp.encode([first, cumulativeGasUsed, logsBloom, logs])
value_list(receipt, first) ==
  encode_list(<<first, encode_uint(receipt.cumulativeGasUsed),
                encode_bytes(HexBytes(receipt.logsBloom)), logs_list(receipt)>>)

\* faulty encode: a receipt without status and root is given status 0
ReceiptValue_encode_defaulting(receipt) ==
  IF "status" \in DOMAIN receipt
  THEN Ok(with_type(receipt, value_list(receipt, encode_uint(receipt.status))))
  ELSE IF "root" \in DOMAIN receipt /\ receipt.root # None
  THEN Ok(with_type(receipt, value_list(receipt, encode_bytes(receipt.root))))
  ELSE Ok(with_type(receipt, value_list(receipt, encode_uint(0))))

\* faulty encode: the state root is preferred to the status
ReceiptValue_encode_root_first(receipt) ==
  IF "root" \in DOMAIN receipt /\ receipt.root # None
  THEN Ok(with_type(receipt, value_list(receipt, encode_bytes(receipt.root))))
  ELSE IF "status" \in DOMAIN receipt
  THEN Ok(with_type(receipt, value_list(receipt, encode_uint(receipt.status))))
  ELSE Err("ValueError")

\* faulty encode: the sizes of bloom, addresses and topics are enforced
ReceiptValue_encode_size_checked(receipt) ==
  IF \/ Len(HexBytes(receipt.logsBloom)) # 256
     \/ \E i \in 1..Len(receipt.logs) :
          \/ Len(HexBytes(receipt.logs[i].address)) # 20
          \/ \E j \in 1..Len(receipt.logs[i].topics) :
               Len(HexBytes(receipt.logs[i].topics[j])) # 32
  THEN Err("ValueError")
  ELSE IF "status" \in DOMAIN receipt
  THEN Ok(with_type(receipt, value_list(receipt, encode_uint(receipt.status))))
  ELSE IF "root" \in DOMAIN receipt /\ receipt.root # None
  THEN Ok(with_type(receipt, value_list(receipt, encode_bytes(receipt.root))))
  ELSE Err("ValueError")

\* ReceiptValue.encode
ReceiptValue_encode(receipt) ==
  IF "status" \in DOMAIN receipt
  THEN \* post-Byzantium: [status, cumulativeGasUsed, logsBloom, logs]
       Ok(with_type(receipt, value_list(receipt, encode_uint(receipt.status))))
  ELSE IF "root" \in DOMAIN receipt
  THEN \* pre-Byzantium: [stateRoot, cumulativeGasUsed, logsBloom, logs];
       \* rlp.encode has no encoding for None
       IF receipt.root = None THEN Err("TypeError")
       ELSE Ok(with_type(receipt, value_list(receipt, encode_bytes(receipt.root))))
  ELSE Err("ValueError")

\* faulty index_key: the big-endian bytes of the index, not their RLP
index_key_big_endian(index) == big_endian(index)

\* faulty index_key: the index as one raw byte
index_key_raw_byte(index) == <<index % 256>>

\* rlp.encode(index, sedes=rlp.sedes.big_endian_int)
index_key(index) == encode_uint(index)

\* mpt[key] = value: the trie after the insert
setitem(trie, key_bytes, value_bytes) ==
  trie_set(trie, bytes_to_nibbles(key_bytes), value_bytes)

\* faulty loop body: the key is taken from the receipt's transactionIndex
loop_body_by_transaction_index(trie, position, receipt, encoded) ==
  setitem(trie, index_key(receipt.transactionIndex), encoded)

\* body of the loop of compute_trie_root for the pair (index, receipt) of
\* enumerate(values); the receipt's encoding is given
loop_body(trie, position, receipt, encoded) ==
  setitem(trie, index_key(position), encoded)

RECURSIVE trie_loop(_, _, _)
\* the loop of compute_trie_root from position `position` on
trie_loop(trie, position, values) ==
  IF position >= Len(values) THEN Ok(trie)
  ELSE LET enc == ReceiptValue_encode(values[position + 1])
       IN IF enc.ok
          THEN trie_loop(loop_body(trie, position, values[position + 1], enc.value),
                         position + 1, values)
          ELSE enc

\* compute_receipts_root(receipts) run on its own: the root or the exception
compute_receipts_root(values) ==
  LET built == trie_loop(BLANK_NODE, 0, values)
  IN IF built.ok THEN Ok(root_hash(built.value)) ELSE built

\* ------------------------------------------------------------- the calls
Calls == {1, 2}

LongList == [i \in 1..LongLen |-> LegacyOkAlias]

\* the receipt lists of the unit tests that use ETH_TRANSFER_RECEIPT
TestLists == {<<ETH_TRANSFER_RECEIPT>>, <<ETH_TRANSFER_RECEIPT, ETH_TRANSFER_RECEIPT>>}

\* lists with a receipt that rlp.encode cannot encode
NoneLists == {<<LegacyOk, RootNone>>, <<RootNone, NoDiscriminator>>}

InputLists ==
  UNION {[1..n -> Receipts] : n \in 0..MaxLen}
    \cup {LongList} \cup TestLists \cup NoneLists

\* inputs of two calls that run side by side
ConcLists == {<<>>, <<LegacyOk, TypedTransfer>>, <<LegacyOkAlias, TypedTransfer>>,
              <<PreByzantium, WrongSizes>>, <<WrongSizes, NoDiscriminator>>}

NoResult == <<>>

VARIABLES
  receipts,  \* call -> its argument
  pc,        \* call -> "idle" (never made), "loop", "returned" or "raised"
  index,     \* call -> position of the next receipt of the loop
  mpt,       \* call -> root node of the call's trie
  key,       \* call -> key of the last insert
  value,     \* call -> value of the last insert
  result,    \* call -> the root returned
  error,     \* call -> name of the exception raised
  trie,      \* root node of a HexaryTrie used on its own
  entries,   \* key -> value last set in that trie
  shadow,    \* root node of a second HexaryTrie that misses one write
  overwrite, \* the write the second trie misses: how far it is, and its key
  scan,      \* arguments and locals of the scan function that runs
  shutdown,  \* the asyncio.Event the signal handler sets
  blocks,    \* the blocks the scan took up, with what it found for each
  fetches,   \* number of get_block calls made
  compare,   \* a call of should_ignore_diff: its arguments and what it returned
  validation, \* a call of is_valid_jsonrpc_object: arguments and return value
  client,    \* a websocket Client: node_url's scheme, server_ca_file, w3
  ws,        \* the calls made on the websocket Client and how each ended
  codec,     \* a call of an encoding function: its argument and what it returned
  player,    \* a call of Player.replay: the log, the method, what was sent
  runner     \* a call of run_compare: the diff processes and what it returned

callVars == <<receipts, pc, index, mpt, key, value, result, error>>

trieVars == <<trie, entries, shadow, overwrite>>

scanVars == <<scan, shutdown, blocks, fetches>>

clientVars == <<client, ws>>

restVars == <<codec, player, runner>>

toolVars == <<scanVars, compare, validation, clientVars, restVars>>

vars ==
  <<receipts, pc, index, mpt, key, value, result, error,
    trie, entries, shadow, overwrite, scan, shutdown, blocks, fetches,
    compare, validation, client, ws, codec, player, runner>>

\* Python's None where a string can stand as well
Null == "None"

\* no hash yet: previous_block_hash = None
NoHash == 0

\* no scan function runs
NoScan ==
  [mode |-> "none", stop_at_reorg |-> FALSE, pc |-> "idle", status |-> 0,
   start_block |-> 0, block_number |-> 0, end_block |-> 0,
   previous_block_hash |-> NoHash,
   current_block_number |-> 0, gap_detected |-> FALSE, reorg_detected |-> FALSE]

ScanIdle ==
  /\ scan = NoScan
  /\ shutdown = FALSE
  /\ blocks = <<>>
  /\ fetches = 0

\* should_ignore_diff is not called
CompareIdle ==
  compare = [actual_response |-> <<>>, expected_response |-> <<>>,
             expected_from_file |-> FALSE, do_not_compare_error |-> FALSE,
             pc |-> "idle", returned |-> FALSE]

\* is_valid_jsonrpc_object is not called
ValidationIdle ==
  validation = [obj |-> [kind |-> "other"], allow_missing_result_and_error |-> FALSE,
                pc |-> "idle", returned |-> FALSE]

\* no call on a websocket Client so far
NoCall == <<>>

\* self.w3 = None
NoW3 == [provider |-> FALSE, connected |-> FALSE]

\* there is no websocket Client that matters
ClientIdle ==
  /\ client = [scheme |-> "ws", server_ca_file |-> Null, w3 |-> NoW3]
  /\ ws = NoCall

\* no encoding function is called
CodecIdle == codec = [pc |-> "idle"]

\* Player.replay is not called
PlayerIdle == player = [pc |-> "idle"]

\* run_compare is not called
RunnerIdle == runner = [pc |-> "idle"]

RestIdle == CodecIdle /\ PlayerIdle /\ RunnerIdle

ToolsIdle ==
  ScanIdle /\ CompareIdle /\ ValidationIdle /\ ClientIdle /\ RestIdle

\* trie.HexaryTrie(db={})
TrieInit ==
  /\ trie = BLANK_NODE
  /\ entries = <<>>
  /\ shadow = BLANK_NODE
  /\ overwrite = [phase |-> "before", key |-> <<>>]

CallsInit ==
  /\ \/ /\ receipts \in [Calls -> ConcLists]
        /\ pc = [c \in Calls |-> "loop"]
     \/ /\ receipts \in {[c \in Calls |-> IF c = 1 THEN l ELSE <<>>] : l \in InputLists}
        /\ pc = [c \in Calls |-> IF c = 1 THEN "loop" ELSE "idle"]
  /\ index = [c \in Calls |-> 0]
  /\ mpt = [c \in Calls |-> BLANK_NODE]
  /\ key = [c \in Calls |-> <<>>]
  /\ value = [c \in Calls |-> <<>>]
  /\ result = [c \in Calls |-> NoResult]
  /\ error = [c \in Calls |-> ""]

Init == CallsInit /\ TrieInit /\ ToolsIdle

\* faulty Insert: one trie shared by all calls
Insert_shared_trie(c) ==
  /\ pc[c] = "loop"
  /\ index[c] < Len(receipts[c])
  /\ LET enc == ReceiptValue_encode(receipts[c][index[c] + 1])
     IN /\ enc.ok
        /\ key' = [key EXCEPT ![c] = index_key(index[c])]
        /\ value' = [value EXCEPT ![c] = enc.value]
        /\ mpt' = [d \in Calls |->
                     loop_body(mpt[1], index[c], receipts[c][index[c] + 1], enc.value)]
  /\ index' = [index EXCEPT ![c] = @ + 1]
  /\ UNCHANGED <<receipts, pc, result, error>>
  /\ UNCHANGED trieVars
  /\ UNCHANGED toolVars

\* one turn of the loop of compute_trie_root: encode and insert
Insert(c) ==
  /\ pc[c] = "loop"
  /\ index[c] < Len(receipts[c])
  /\ LET enc == ReceiptValue_encode(receipts[c][index[c] + 1])
     IN /\ enc.ok
        /\ key' = [key EXCEPT ![c] = index_key(index[c])]
        /\ value' = [value EXCEPT ![c] = enc.value]
        /\ mpt' = [mpt EXCEPT ![c] =
                     loop_body(@, index[c], receipts[c][index[c] + 1], enc.value)]
  /\ index' = [index EXCEPT ![c] = @ + 1]
  /\ UNCHANGED <<receipts, pc, result, error>>
  /\ UNCHANGED trieVars
  /\ UNCHANGED toolVars

\* encode raises: the exception leaves compute_receipts_root
Raise(c) ==
  /\ pc[c] = "loop"
  /\ index[c] < Len(receipts[c])
  /\ LET enc == ReceiptValue_encode(receipts[c][index[c] + 1])
     IN /\ ~enc.ok
        /\ error' = [error EXCEPT ![c] = enc.error]
  /\ pc' = [pc EXCEPT ![c] = "raised"]
  /\ UNCHANGED <<receipts, index, mpt, key, value, result>>
  /\ UNCHANGED trieVars
  /\ UNCHANGED toolVars

\* every receipt is in: return mpt.root_hash
Return(c) ==
  /\ pc[c] = "loop"
  /\ index[c] = Len(receipts[c])
  /\ result' = [result EXCEPT ![c] = root_hash(mpt[c])]
  /\ pc' = [pc EXCEPT ![c] = "returned"]
  /\ UNCHANGED <<receipts, index, mpt, key, value, error>>
  /\ UNCHANGED trieVars
  /\ UNCHANGED toolVars

Next == \E c \in Calls : Insert(c) \/ Raise(c) \/ Return(c)

Spec == Init /\ [][Next]_vars

\* ------------------------------------------------------------- a trie alone
\* keys that share nibbles, one being a prefix of another
TrieKeys == {<<18>>, <<18, 52>>, <<18, 53>>, <<19>>, <<128>>}

\* a one-byte value, and a 28-byte value whose leaf takes 31 bytes (embedded)
\* under a path of at most one nibble and 33 bytes (hashed) under a longer one
TrieValues == {<<7>>, Eager([i \in 1..28 |-> 9])}

NoCalls ==
  /\ receipts = [c \in Calls |-> <<>>]
  /\ pc = [c \in Calls |-> "idle"]
  /\ index = [c \in Calls |-> 0]
  /\ mpt = [c \in Calls |-> BLANK_NODE]
  /\ key = [c \in Calls |-> <<>>]
  /\ value = [c \in Calls |-> <<>>]
  /\ result = [c \in Calls |-> NoResult]
  /\ error = [c \in Calls |-> ""]

InitTrie == NoCalls /\ TrieInit /\ ToolsIdle

\* mpt[k] = v on the trie, any key in any order
Set(k, v) ==
  /\ trie' = setitem(trie, k, v)
  /\ entries' = (k :> v) @@ entries
  /\ UNCHANGED <<shadow, overwrite>>
  /\ UNCHANGED callVars
  /\ UNCHANGED toolVars

NextTrie == \E k \in TrieKeys, v \in TrieValues : Set(k, v)

SpecTrie == InitTrie /\ [][NextTrie]_vars

\* ------------------------------------------------------------- child references
\* two pairs of keys that part at their last nibble, so that leaves with an
\* empty path hang below a branch
RefKeys == {<<18>>, <<19>>, <<52>>, <<53>>}

\* a leaf with an empty path takes 3 bytes with the first value, 31 with the
\* second and 32 with the third
RefValues == {<<7>>, Eager([i \in 1..28 |-> 9]), Eager([i \in 1..29 |-> 9])}

NextRef == \E k \in RefKeys, v \in RefValues : Set(k, v)

SpecRef == InitTrie /\ [][NextRef]_vars

\* ------------------------------------------------------------- overwriting
\* keys of the two tries: one key is a prefix of another
OverwriteKeys == {<<18>>, <<18, 52>>, <<19>>}

\* mpt[k] = v on both tries
SetBoth(k, v) ==
  /\ overwrite.phase \in {"before", "between"}
  /\ overwrite.phase = "between" => k # overwrite.key
  /\ trie' = setitem(trie, k, v)
  /\ shadow' = setitem(shadow, k, v)
  /\ UNCHANGED <<entries, overwrite>>
  /\ UNCHANGED callVars
  /\ UNCHANGED toolVars

\* mpt[k] = v1 on the first trie only
FirstWrite(k, v1) ==
  /\ overwrite.phase = "before"
  /\ trie' = setitem(trie, k, v1)
  /\ overwrite' = [phase |-> "between", key |-> k]
  /\ UNCHANGED <<entries, shadow>>
  /\ UNCHANGED callVars
  /\ UNCHANGED toolVars

\* mpt[k] = v2 on both tries, k being the key of FirstWrite
SecondWrite(v2) ==
  /\ overwrite.phase = "between"
  /\ trie' = setitem(trie, overwrite.key, v2)
  /\ shadow' = setitem(shadow, overwrite.key, v2)
  /\ overwrite' = [overwrite EXCEPT !.phase = "after"]
  /\ UNCHANGED entries
  /\ UNCHANGED callVars
  /\ UNCHANGED toolVars

NextOverwrite ==
  \/ \E k \in OverwriteKeys, v \in TrieValues : SetBoth(k, v)
  \/ \E k \in OverwriteKeys, v \in TrieValues : FirstWrite(k, v)
  \/ \E v \in TrieValues : SecondWrite(v)

SpecOverwrite == InitTrie /\ [][NextOverwrite]_vars

\* ------------------------------------------------------------- scanning blocks
\* the root of test_single_eth_transfer_receipt_root, 0x056b23fb...cf4ca2d2
SingleTransferRoot ==
  <<5, 107, 35, 251, 186, 72, 6, 150, 182, 95, 229, 165, 155, 143, 33, 72,
    161, 41, 145, 3, 196, 245, 125, 248, 57, 35, 58, 242, 207, 76, 162, 210>>

\* the receipt lists the node serves: those of test_empty_receipts_root and
\* test_single_eth_transfer_receipt_root
NodeReceipts == << <<>>, <<ETH_TRANSFER_RECEIPT>> >>

\* compute_receipts_root of the lists of NodeReceipts
NodeReceiptsRoot == <<EMPTY_TRIE_ROOT, SingleTransferRoot>>

Hashes == {1, 2}

\* the block headers get_block can return
Blocks ==
  [number : 1..MaxBlock, hash : Hashes, parentHash : Hashes,
   receipts : 1..Len(NodeReceipts),
   receiptsRoot : {NodeReceiptsRoot[i] : i \in 1..Len(NodeReceipts)}]

\* computed_receipts_root == header_receipts_root
root_matches(block) == NodeReceiptsRoot[block.receipts] = block.receiptsRoot

\* faulty mismatch branch: the status is set but the loop goes on
on_mismatch_continuing(s) == [s EXCEPT !.status = 1]

\* status = 1; break
on_mismatch(s) == [s EXCEPT !.status = 1, !.pc = "returned"]

\* the reorg test of scan_latest_blocks and scan_beyond_latest
reorg_check(s, block) ==
  /\ s.previous_block_hash # NoHash
  /\ block.number = s.current_block_number - 1
  /\ block.parentHash # s.previous_block_hash

\* the gap test of scan_latest_blocks and scan_beyond_latest
gap_check(s, block) ==
  s.current_block_number > 0 /\ block.number # s.current_block_number + 1

\* what the scan found for a block it took up
Entry(block, reorg, outcome) ==
  [number |-> block.number, hash |-> block.hash, parentHash |-> block.parentHash,
   reorg |-> reorg, outcome |-> outcome, fetch_no |-> fetches + 1]

\* the end of an iteration whose receipts root was right
after_match(s) ==
  IF s.reorg_detected /\ s.stop_at_reorg THEN [s EXCEPT !.pc = "returned"]
  ELSE [s EXCEPT !.reorg_detected = FALSE, !.pc = "loop"]

StartScan ==
  \/ \E start \in 1..2, end \in 1..MaxBlock :
       /\ start <= end
       /\ scan = [NoScan EXCEPT !.mode = "range", !.pc = "loop",
                                !.start_block = start, !.block_number = start,
                                !.end_block = end]
  \/ \E m \in {"latest", "beyond"}, stop \in BOOLEAN :
       scan = [NoScan EXCEPT !.mode = m, !.pc = "loop", !.stop_at_reorg = stop]

InitScan ==
  /\ NoCalls
  /\ TrieInit
  /\ StartScan
  /\ shutdown = FALSE
  /\ blocks = <<>>
  /\ fetches = 0
  /\ CompareIdle
  /\ ValidationIdle
  /\ ClientIdle
  /\ RestIdle

\* what a scan leaves alone
notScanVars == <<callVars, trieVars, compare, validation, clientVars, restVars>>

\* signal_handler: shutdown_event.set()
Shutdown ==
  /\ scan.pc \in {"loop", "next"}
  /\ ~shutdown
  /\ shutdown' = TRUE
  /\ UNCHANGED <<scan, blocks, fetches>>
  /\ UNCHANGED notScanVars

\* one turn of the loop of scan_block_range, or its end
ScanRange ==
  /\ scan.mode = "range"
  /\ scan.pc = "loop"
  /\ IF scan.block_number > scan.end_block \/ shutdown
     THEN /\ scan' = [scan EXCEPT !.pc = "returned"]
          /\ UNCHANGED <<blocks, fetches>>
     ELSE /\ fetches < MaxFetches
          /\ fetches' = fetches + 1
          /\ \/ \* get_block finds no block, or raises a client error
                /\ scan' = [scan EXCEPT !.block_number = @ + 1]
                /\ UNCHANGED blocks
             \/ \E block \in Blocks, fetched \in BOOLEAN :
                  /\ block.number = scan.block_number
                  /\ IF ~fetched
                     THEN \* fetch_receipts raises a client error
                          /\ scan' = [scan EXCEPT !.block_number = @ + 1]
                          /\ blocks' = Append(blocks, Entry(block, FALSE, "error"))
                     ELSE IF root_matches(block)
                     THEN /\ scan' = [scan EXCEPT !.block_number = @ + 1]
                          /\ blocks' = Append(blocks, Entry(block, FALSE, "match"))
                     ELSE /\ scan' = on_mismatch(scan)
                          /\ blocks' = Append(blocks, Entry(block, FALSE, "mismatch"))
  /\ UNCHANGED shutdown
  /\ UNCHANGED notScanVars

\* one turn of the loop of scan_latest_blocks, or its end
ScanLatest ==
  /\ scan.mode = "latest"
  /\ scan.pc = "loop"
  /\ IF shutdown
     THEN /\ scan' = [scan EXCEPT !.pc = "returned"]
          /\ UNCHANGED <<blocks, fetches>>
     ELSE /\ fetches < MaxFetches
          /\ fetches' = fetches + 1
          /\ \/ \* get_block raises a client error
                UNCHANGED <<scan, blocks>>
             \/ \E block \in Blocks, fetched \in BOOLEAN :
                  IF block.number = scan.current_block_number
                  THEN \* no new block: sleep and ask again
                       UNCHANGED <<scan, blocks>>
                  ELSE LET reorg == scan.reorg_detected \/ reorg_check(scan, block)
                           taken == [scan EXCEPT
                                       !.reorg_detected = reorg,
                                       !.current_block_number = block.number,
                                       !.previous_block_hash = block.hash]
                       IN IF ~fetched
                          THEN /\ scan' = taken
                               /\ blocks' = Append(blocks, Entry(block, reorg, "error"))
                          ELSE IF root_matches(block)
                          THEN /\ scan' = after_match(taken)
                               /\ blocks' = Append(blocks, Entry(block, reorg, "match"))
                          ELSE /\ scan' = on_mismatch(taken)
                               /\ blocks' = Append(blocks, Entry(block, reorg, "mismatch"))
  /\ UNCHANGED shutdown
  /\ UNCHANGED notScanVars

\* scan_beyond_latest: the latest block is asked for, and checked after a gap
\* or a reorg
ScanBeyondLatest ==
  /\ scan.mode = "beyond"
  /\ scan.pc = "loop"
  /\ IF shutdown
     THEN /\ scan' = [scan EXCEPT !.pc = "returned"]
          /\ UNCHANGED <<blocks, fetches>>
     ELSE /\ fetches < MaxFetches
          /\ fetches' = fetches + 1
          /\ \/ \* get_block raises a client error
                UNCHANGED <<scan, blocks>>
             \/ \E block \in Blocks, fetched \in BOOLEAN :
                  IF block.number = scan.current_block_number
                  THEN UNCHANGED <<scan, blocks>>
                  ELSE LET gap == scan.gap_detected \/ gap_check(scan, block)
                           reorg == scan.reorg_detected \/ reorg_check(scan, block)
                           taken == [scan EXCEPT
                                       !.gap_detected = gap,
                                       !.reorg_detected = reorg,
                                       !.current_block_number = block.number,
                                       !.previous_block_hash = block.hash]
                       IN IF ~(gap \/ reorg)
                          THEN /\ scan' = [taken EXCEPT !.pc = "next"]
                               /\ UNCHANGED blocks
                          ELSE IF ~fetched
                          THEN /\ scan' = taken
                               /\ blocks' = Append(blocks, Entry(block, reorg, "error"))
                          ELSE IF root_matches(block)
                          THEN /\ scan' = [taken EXCEPT !.pc = "next"]
                               /\ blocks' = Append(blocks, Entry(block, reorg, "match"))
                          ELSE /\ scan' = on_mismatch(taken)
                               /\ blocks' = Append(blocks, Entry(block, reorg, "mismatch"))
  /\ UNCHANGED shutdown
  /\ UNCHANGED notScanVars

\* faulty scan_beyond_latest: the wait for the block after the latest does
\* not look at the shutdown event
ScanBeyondNext_ignoring_shutdown ==
  /\ scan.mode = "beyond"
  /\ scan.pc = "next"
  /\ IF FALSE
     THEN /\ scan' = [scan EXCEPT !.pc = "returned"]
          /\ UNCHANGED <<blocks, fetches>>
     ELSE /\ fetches < MaxFetches
          /\ fetches' = fetches + 1
          /\ \/ \* BlockNotFound: sleep and ask again
                UNCHANGED <<scan, blocks>>
             \/ \* get_block raises a client error: back to the outer loop
                /\ scan' = [scan EXCEPT !.pc = "loop"]
                /\ UNCHANGED blocks
             \/ \E next_block \in Blocks, fetched \in BOOLEAN :
                  /\ next_block.number = scan.current_block_number + 1
                  /\ IF ~fetched
                     THEN /\ scan' = [scan EXCEPT !.pc = "loop"]
                          /\ blocks' = Append(blocks,
                                              Entry(next_block, scan.reorg_detected, "error"))
                     ELSE IF root_matches(next_block)
                     THEN /\ scan' = after_match(scan)
                          /\ blocks' = Append(blocks,
                                              Entry(next_block, scan.reorg_detected, "match"))
                     ELSE /\ scan' = on_mismatch(scan)
                          /\ blocks' = Append(blocks,
                                              Entry(next_block, scan.reorg_detected, "mismatch"))
  /\ UNCHANGED shutdown
  /\ UNCHANGED notScanVars

\* scan_beyond_latest: the block after the latest is asked for until it is
\* there, then checked
ScanBeyondNext ==
  /\ scan.mode = "beyond"
  /\ scan.pc = "next"
  /\ IF shutdown
     THEN /\ scan' = [scan EXCEPT !.pc = "returned"]
          /\ UNCHANGED <<blocks, fetches>>
     ELSE /\ fetches < MaxFetches
          /\ fetches' = fetches + 1
          /\ \/ \* BlockNotFound: sleep and ask again
                UNCHANGED <<scan, blocks>>
             \/ \* get_block raises a client error: back to the outer loop
                /\ scan' = [scan EXCEPT !.pc = "loop"]
                /\ UNCHANGED blocks
             \/ \E next_block \in Blocks, fetched \in BOOLEAN :
                  /\ next_block.number = scan.current_block_number + 1
                  /\ IF ~fetched
                     THEN /\ scan' = [scan EXCEPT !.pc = "loop"]
                          /\ blocks' = Append(blocks,
                                              Entry(next_block, scan.reorg_detected, "error"))
                     ELSE IF root_matches(next_block)
                     THEN /\ scan' = after_match(scan)
                          /\ blocks' = Append(blocks,
                                              Entry(next_block, scan.reorg_detected, "match"))
                     ELSE /\ scan' = on_mismatch(scan)
                          /\ blocks' = Append(blocks,
                                              Entry(next_block, scan.reorg_detected, "mismatch"))
  /\ UNCHANGED shutdown
  /\ UNCHANGED notScanVars

NextScan == Shutdown \/ ScanRange \/ ScanLatest \/ ScanBeyondLatest \/ ScanBeyondNext

SpecScan == InitScan /\ [][NextScan]_vars

\* every RPC call and every sleep of a scan completes
SpecScanLive ==
  /\ SpecScan
  /\ WF_vars(ScanRange)
  /\ WF_vars(ScanLatest)
  /\ WF_vars(ScanBeyondLatest)
  /\ WF_vars(ScanBeyondNext)

\* ------------------------------------------------------------- comparing responses
\* a member that a response does not have
Absent == "absent"

\* a JSON-RPC response with the given result and error members
Response(res, err) ==
  [k \in {"jsonrpc", "id"}
          \cup (IF res = Absent THEN {} ELSE {"result"})
          \cup (IF err = Absent THEN {} ELSE {"error"}) |->
     CASE k = "jsonrpc" -> "2.0"
       [] k = "id" -> "1"
       [] k = "result" -> res
       [] k = "error" -> err]

Responses ==
  {Response(res, err) : res \in {Absent, Null, "r1", "r2"},
                        err \in {Absent, Null, "e1", "e2"}}

\* faulty should_ignore_diff: the lenient error case is tried first
should_ignore_diff_lenient_first(actual_response, expected_response, expected_from_file, do_not_compare_error) ==
  LET has_actual_error == "error" \in DOMAIN actual_response
      has_expected_error == "error" \in DOMAIN expected_response
      expected_error_is_null ==
        has_expected_error /\ expected_response["error"] = Null
  IN IF actual_response = expected_response THEN TRUE
     ELSE IF has_actual_error /\ has_expected_error
             /\ (expected_error_is_null \/ do_not_compare_error)
     THEN TRUE
     ELSE ~has_expected_error /\ "result" \notin DOMAIN expected_response

\* should_ignore_diff
should_ignore_diff(actual_response, expected_response, expected_from_file, do_not_compare_error) ==
  LET has_actual_error == "error" \in DOMAIN actual_response
      has_expected_error == "error" \in DOMAIN expected_response
      has_actual_result == "result" \in DOMAIN actual_response
      has_expected_result == "result" \in DOMAIN expected_response
      actual_error_is_null == has_actual_error /\ actual_response["error"] = Null
      expected_error_is_null ==
        has_expected_error /\ expected_response["error"] = Null
      expected_result_is_null ==
        has_expected_result /\ expected_response["result"] = Null
  IN IF actual_response = expected_response THEN TRUE
     \* case 1
     ELSE IF /\ has_expected_error
             /\ ~expected_error_is_null
             /\ (\/ ~has_actual_error
                 \/ actual_error_is_null
                 \/ actual_response["error"] # expected_response["error"])
     THEN FALSE
     \* case 2
     ELSE IF has_expected_result /\ has_actual_error /\ ~expected_result_is_null
     THEN FALSE
     ELSE IF /\ has_expected_result /\ has_actual_error
             /\ expected_result_is_null /\ expected_from_file
     THEN TRUE
     \* case 3
     ELSE IF has_actual_result /\ expected_result_is_null /\ expected_from_file
     THEN TRUE
     \* case 4
     ELSE IF /\ has_actual_error /\ has_expected_error
             /\ (expected_error_is_null \/ do_not_compare_error)
     THEN TRUE
     \* case 5
     ELSE IF ~has_expected_error /\ ~has_expected_result
     THEN TRUE
     ELSE FALSE

\* process_response, from `if response != expected_response` on: TRUE when
\* the pair is accepted without compare_json being called
process_response(response, expected_response, result1_is_empty, do_not_compare_error) ==
  IF response # expected_response
  THEN IF /\ "result" \in DOMAIN response
          /\ "result" \in DOMAIN expected_response
          /\ expected_response["result"] = Null
          /\ result1_is_empty
       THEN TRUE
       ELSE IF /\ "error" \in DOMAIN response
               /\ "error" \in DOMAIN expected_response
               /\ expected_response["error"] = Null
       THEN TRUE
       ELSE IF /\ "error" \notin DOMAIN expected_response
               /\ "result" \notin DOMAIN expected_response
       THEN TRUE
       ELSE IF /\ "error" \in DOMAIN response
               /\ "error" \in DOMAIN expected_response
               /\ do_not_compare_error
       THEN TRUE
       ELSE FALSE
  ELSE TRUE

InitCompare ==
  /\ NoCalls
  /\ TrieInit
  /\ ScanIdle
  /\ ValidationIdle
  /\ ClientIdle
  /\ RestIdle
  /\ compare \in [actual_response : Responses, expected_response : Responses,
                  expected_from_file : BOOLEAN, do_not_compare_error : BOOLEAN,
                  pc : {"called"}, returned : {FALSE}]

\* the call of should_ignore_diff returns
ShouldIgnoreDiff ==
  /\ compare.pc = "called"
  /\ compare' = [compare EXCEPT
                   !.pc = "returned",
                   !.returned = should_ignore_diff(
                                  compare.actual_response, compare.expected_response,
                                  compare.expected_from_file,
                                  compare.do_not_compare_error)]
  /\ UNCHANGED <<callVars, trieVars, scanVars, validation, clientVars, restVars>>

NextCompare == ShouldIgnoreDiff

SpecCompare == InitCompare /\ [][NextCompare]_vars

\* ------------------------------------------------------------- JSON-RPC objects
\* a Python dict with the given members
Dict(members) == [kind |-> "dict", members |-> members]

\* a Python list with the given items
List(items) == [kind |-> "list", items |-> items]

\* a Python object that is neither a dict nor a list
Other == [kind |-> "other"]

RequestObject == Dict([k \in {"jsonrpc", "id", "method"} |->
                        IF k = "jsonrpc" THEN "2.0" ELSE "1"])
ResultObject == Dict([k \in {"jsonrpc", "id", "result"} |->
                       IF k = "jsonrpc" THEN "2.0" ELSE "1"])
ErrorObject == Dict([k \in {"jsonrpc", "id", "error"} |->
                      IF k = "jsonrpc" THEN "2.0" ELSE "1"])
\* the response of a response file that leaves the outcome open
DontCareObject == Dict([k \in {"jsonrpc", "id"} |->
                         IF k = "jsonrpc" THEN "2.0" ELSE "1"])
NoIdObject == Dict([k \in {"jsonrpc", "result"} |->
                     IF k = "jsonrpc" THEN "2.0" ELSE "1"])
WrongVersionObject == Dict([k \in {"jsonrpc", "id", "result"} |->
                             IF k = "jsonrpc" THEN "1.0" ELSE "1"])
NoVersionObject == Dict([k \in {"id", "result"} |-> "1"])

Dicts == {RequestObject, ResultObject, ErrorObject, DontCareObject,
          NoIdObject, WrongVersionObject, NoVersionObject}

\* what a list may hold: dicts, other objects and lists again
Items == Dicts \cup {Other, List(<<>>), List(<<ResultObject>>),
                     List(<<DontCareObject>>)}

Objects == Items \cup {List(items) : items \in UNION {[1..n -> Items] : n \in 1..2}}

\* is_valid_jsonrpc_object
RECURSIVE is_valid_jsonrpc_object(_, _)
is_valid_jsonrpc_object(obj, allow_missing_result_and_error) ==
  IF obj.kind = "list"
  THEN IF obj.items = <<>>
       THEN FALSE
       \* the items are judged with the default of the flag
       ELSE \A i \in 1..Len(obj.items) : is_valid_jsonrpc_object(obj.items[i], FALSE)
  ELSE IF obj.kind # "dict" THEN FALSE
  ELSE IF "jsonrpc" \notin DOMAIN obj.members \/ obj.members["jsonrpc"] # "2.0"
  THEN FALSE
  ELSE IF "id" \notin DOMAIN obj.members THEN FALSE
  ELSE IF "method" \in DOMAIN obj.members THEN TRUE
  ELSE IF \/ "result" \in DOMAIN obj.members
          \/ "error" \in DOMAIN obj.members
          \/ allow_missing_result_and_error
  THEN TRUE
  ELSE FALSE

InitValidation ==
  /\ NoCalls
  /\ TrieInit
  /\ ScanIdle
  /\ CompareIdle
  /\ ClientIdle
  /\ RestIdle
  /\ validation \in [obj : Objects, allow_missing_result_and_error : BOOLEAN,
                     pc : {"called"}, returned : {FALSE}]

\* the call of is_valid_jsonrpc_object returns
IsValidJsonrpcObject ==
  /\ validation.pc = "called"
  /\ validation' = [validation EXCEPT
                      !.pc = "returned",
                      !.returned = is_valid_jsonrpc_object(
                                     validation.obj,
                                     validation.allow_missing_result_and_error)]
  /\ UNCHANGED <<callVars, trieVars, scanVars, compare, clientVars, restVars>>

NextValidation == IsValidJsonrpcObject

SpecValidation == InitValidation /\ [][NextValidation]_vars

\* ------------------------------------------------------------- websocket Client
\* the exception types that derive from Exception; asyncio's CancelledError
\* derives from BaseException only
Exceptions == {"ValueError", "FileNotFoundError", "ProviderConnectionError",
               "ConnectionError", "Web3Exception"}

\* faulty handler: the exception is raised again as it is
except_Exception_reraising(e) == e

\* except Exception as e: raise ConnectionError(...)
except_Exception(e) == IF e \in Exceptions THEN "ConnectionError" ELSE e

Schemes == {"ws", "wss", "http", ""}

\* no CA file, a CA file that loads, a CA file that cannot be read
CaFiles == {Null, "ca.pem", "missing.pem"}

\* web3.AsyncWeb3(provider), with whether the provider's connection is open
W3(connected) == [provider |-> TRUE, connected |-> connected]

\* what the node and the event loop do to a connect that got to its provider
ConnectOutcomes == {"connect_failed", "connect_cancelled", "not_connected",
                    "block_number_failed", "ok"}

DisconnectOutcomes == {"disconnect_failed", "ok"}

\* one finished call on the Client: what it raised and why, whether it
\* called provider.disconnect(), and self.w3 when it ended
Called(call, raised, cause, provider_disconnect, w3) ==
  [call |-> call, raised |-> raised, cause |-> cause,
   provider_disconnect |-> provider_disconnect, w3 |-> w3]

InitClient ==
  /\ NoCalls
  /\ TrieInit
  /\ ScanIdle
  /\ CompareIdle
  /\ ValidationIdle
  /\ RestIdle
  /\ client \in [scheme : Schemes, server_ca_file : CaFiles, w3 : {NoW3}]
  /\ ws = NoCall

notClientVars == <<callVars, trieVars, scanVars, compare, validation, restVars>>

\* Client.connect
Connect(outcome) ==
  /\ Len(ws) < MaxCalls
  /\ LET end(raised, cause, w3) ==
           /\ client' = [client EXCEPT !.w3 = w3]
           /\ ws' = Append(ws, Called("connect", raised, cause, FALSE, w3))
     IN IF client.scheme \notin {"ws", "wss"}
        THEN end(except_Exception("ValueError"), "scheme", client.w3)
        ELSE IF client.scheme = "wss" /\ client.server_ca_file = Null
        THEN end(except_Exception("ValueError"), "no_ca_file", client.w3)
        ELSE IF client.scheme = "wss" /\ client.server_ca_file = "missing.pem"
        THEN end(except_Exception("FileNotFoundError"), "ca_file_unreadable",
                 client.w3)
        ELSE CASE outcome = "connect_failed" ->
                    end(except_Exception("ProviderConnectionError"), outcome,
                        W3(FALSE))
               [] outcome = "connect_cancelled" ->
                    end(except_Exception("CancelledError"), outcome, W3(FALSE))
               [] outcome = "not_connected" ->
                    end(except_Exception("ConnectionError"), outcome, W3(FALSE))
               [] outcome = "block_number_failed" ->
                    end(except_Exception("Web3Exception"), outcome, W3(TRUE))
               [] outcome = "ok" -> end("", outcome, W3(TRUE))
  /\ UNCHANGED notClientVars

\* Client.disconnect
Disconnect(outcome) ==
  /\ Len(ws) < MaxCalls
  /\ IF client.w3 # NoW3 /\ client.w3.provider
     THEN /\ client' = [client EXCEPT !.w3 = W3(FALSE)]
          /\ ws' = Append(ws,
                     IF outcome = "ok"
                     THEN Called("disconnect", "", outcome, TRUE, W3(FALSE))
                     ELSE Called("disconnect",
                                 except_Exception("Web3Exception"), outcome,
                                 TRUE, W3(FALSE)))
     ELSE /\ ws' = Append(ws, Called("disconnect", "", "no_provider", FALSE,
                                     client.w3))
          /\ UNCHANGED client
  /\ UNCHANGED notClientVars

NextClient ==
  \/ \E outcome \in ConnectOutcomes : Connect(outcome)
  \/ \E outcome \in DisconnectOutcomes : Disconnect(outcome)

SpecClient == InitClient /\ [][NextClient]_vars

\* ------------------------------------------------------------- encoding RLP
\* n bytes b
Fill(n, b) == Eager([i \in 1..n |-> b])

\* payload lengths: all the short ones, and those around the points where
\* the length takes one more byte
PayloadLengths == 0..MaxPayload \cup {255, 256, 257, 65535, 65536}

\* byte strings to encode
ByteStrings ==
  {Fill(n, b) : n \in 0..MaxPayload, b \in {0, 127, 128, 255}}
    \cup {Fill(n, 1) : n \in PayloadLengths}

\* lists to encode, their items encoded already: single bytes, one string,
\* a string and a list
ItemLists ==
  {Fill(n, <<1>>) : n \in 0..MaxPayload}
    \cup {<<encode_bytes(Fill(n, 1))>> : n \in PayloadLengths}
    \cup {<<encode_bytes(Fill(n, 200)), encode_list(<<>>)>> : n \in 0..MaxPayload}

notCodecVars ==
  <<callVars, trieVars, scanVars, compare, validation, clientVars, player, runner>>

CodecOthersIdle ==
  /\ NoCalls
  /\ TrieInit
  /\ ScanIdle
  /\ CompareIdle
  /\ ValidationIdle
  /\ ClientIdle
  /\ PlayerIdle
  /\ RunnerIdle

InitRlp ==
  /\ CodecOthersIdle
  /\ \/ codec \in {[fn |-> "encode_bytes", arg |-> b, pc |-> "called",
                     returned |-> <<>>] : b \in ByteStrings}
     \/ codec \in {[fn |-> "encode_list", arg |-> l, pc |-> "called",
                     returned |-> <<>>] : l \in ItemLists}

\* rlp.encode of a byte string returns
EncodeBytes ==
  /\ codec.pc = "called"
  /\ codec.fn = "encode_bytes"
  /\ codec' = [codec EXCEPT !.pc = "returned", !.returned = encode_bytes(codec.arg)]
  /\ UNCHANGED notCodecVars

\* rlp.encode of a list returns
EncodeList ==
  /\ codec.pc = "called"
  /\ codec.fn = "encode_list"
  /\ codec' = [codec EXCEPT !.pc = "returned", !.returned = encode_list(codec.arg)]
  /\ UNCHANGED notCodecVars

NextRlp == EncodeBytes \/ EncodeList

SpecRlp == InitRlp /\ [][NextRlp]_vars

\* ------------------------------------------------------------- hex-prefix encoding
\* nibble paths: every path of up to two nibbles, and longer ones over the
\* least, the second and the greatest nibble
NibblePaths ==
  UNION {[1..n -> 0..15] : n \in 0..2}
    \cup UNION {[1..n -> {0, 1, 15}] : n \in 3..MaxNibbles}

HexPrefixArgs == [nibbles : NibblePaths, is_leaf : BOOLEAN]

InitHexPrefix ==
  /\ CodecOthersIdle
  /\ codec \in {[fn |-> "hex_prefix", arg |-> a, pc |-> "called",
                  returned |-> <<>>] : a \in HexPrefixArgs}

\* the hex-prefix encoding of a path returns
HexPrefix ==
  /\ codec.pc = "called"
  /\ codec.fn = "hex_prefix"
  /\ codec' = [codec EXCEPT
                 !.pc = "returned",
                 !.returned = hex_prefix(codec.arg.nibbles, codec.arg.is_leaf)]
  /\ UNCHANGED notCodecVars

NextHexPrefix == HexPrefix

SpecHexPrefix == InitHexPrefix /\ [][NextHexPrefix]_vars

\* ------------------------------------------------------------- replaying requests
Methods == {"engine_newPayloadV3", "engine_forkchoiceUpdatedV3"}

\* a line of the interface log: whether it holds "REQ -> ", and the methods
\* whose names occur in it
LogLine(is_request, mentions) == [is_request |-> is_request, mentions |-> mentions]

\* a request of either method, and a response that names the first method
LogLines == {LogLine(TRUE, {m}) : m \in Methods}
              \cup {LogLine(FALSE, {"engine_newPayloadV3"})}

\* the lines of the log files, the files taken in sorted order
Logs == UNION {[1..n -> LogLines] : n \in 0..MaxLines}

\* log_file_line.find("REQ -> ") != -1 and log_file_line.find(method) != -1
matches(log_file_line, method) ==
  log_file_line.is_request /\ method \in log_file_line.mentions

RECURSIVE find_from(_, _, _, _, _)
\* the loop of __find_jsonrpc_request from line i on, method_count matching
\* lines having been passed: the position of the line returned, 0 for None
find_from(log, method, method_index, i, method_count) ==
  IF i > Len(log) THEN 0
  ELSE IF matches(log[i], method)
  THEN (IF method_count + 1 = method_index THEN i
        ELSE find_from(log, method, method_index, i + 1, method_count + 1))
  ELSE find_from(log, method, method_index, i + 1, method_count)

\* Player.__find_jsonrpc_request
find_jsonrpc_request(log, method, method_index) ==
  find_from(log, method, method_index, 1, 0)

\* how requests.post and response.json() end: a response with a status below
\* 400, one with an error status, a ConnectionError, a body that is not JSON
PostOutcomes == {"ok", "http_error", "connection_error", "not_json"}

InitPlayer ==
  /\ NoCalls
  /\ TrieInit
  /\ ScanIdle
  /\ CompareIdle
  /\ ValidationIdle
  /\ ClientIdle
  /\ CodecIdle
  /\ RunnerIdle
  /\ player \in [log : Logs, method : {"engine_newPayloadV3"}, pretend : BOOLEAN,
                 method_index : {1}, sent : {<<>>}, pc : {"loop"}]

notPlayerVars ==
  <<callVars, trieVars, scanVars, compare, validation, clientVars, codec, runner>>

\* Player.replay: one test of the while condition, which calls
\* replay_request, and the body of the loop when the test succeeds
Replay(outcome) ==
  /\ player.pc = "loop"
  /\ LET found == find_jsonrpc_request(player.log, player.method,
                                       player.method_index)
     IN IF found = 0
        THEN \* nothing found: replay_request returns None
             player' = [player EXCEPT !.pc = "returned"]
        ELSE IF player.pretend
        THEN \* replay_request returns response, which is None
             player' = [player EXCEPT !.pc = "returned"]
        ELSE CASE outcome = "ok" ->
                    \* the response is true: next index, sleep, test again
                    player' = [player EXCEPT !.sent = Append(@, found),
                                             !.method_index = @ + 1]
               [] outcome = "http_error" ->
                    \* bool(response) is response.ok, which is False
                    player' = [player EXCEPT !.sent = Append(@, found),
                                             !.pc = "returned"]
               [] outcome = "connection_error" ->
                    \* caught: replay_request returns None
                    player' = [player EXCEPT !.pc = "returned"]
               [] outcome = "not_json" ->
                    \* response.json() raises, and nothing catches it
                    player' = [player EXCEPT !.sent = Append(@, found),
                                             !.pc = "raised"]
  /\ UNCHANGED notPlayerVars

NextPlayer == \E outcome \in PostOutcomes : Replay(outcome)

SpecPlayer == InitPlayer /\ [][NextPlayer]_vars

\* ------------------------------------------------------------- running the diff tools
\* MAX_TIME = 200  # times of TIME secs
MAX_TIME == 200

\* faulty test of the limit: one more poll is made
timed_out_late(idx) == idx > MAX_TIME

\* if idx >= MAX_TIME
timed_out(idx) == idx >= MAX_TIME

InitRunner ==
  /\ NoCalls
  /\ TrieInit
  /\ ScanIdle
  /\ CompareIdle
  /\ ValidationIdle
  /\ ClientIdle
  /\ CodecIdle
  /\ PlayerIdle
  /\ runner \in [use_jsondiff : BOOLEAN, pc : {"start"}, tool : {"none"},
                 already_failed : {FALSE}, idx : {0}, polls : {0}, kills : {0},
                 fallbacks : {0}, returned : {0}, cause : {""}]

notRunnerVars ==
  <<callVars, trieVars, scanVars, compare, validation, clientVars, codec, player>>

\* run_compare up to the loop: json-diff is looked for, and a tool is started
StartCompare(jsondiff_found) ==
  /\ runner.pc = "start"
  /\ IF runner.use_jsondiff
     THEN IF ~jsondiff_found
          THEN runner' = [runner EXCEPT !.pc = "returned", !.returned = 0,
                                        !.cause = "unavailable"]
          ELSE runner' = [runner EXCEPT !.pc = "poll", !.tool = "json-diff",
                                        !.already_failed = FALSE]
     ELSE runner' = [runner EXCEPT !.pc = "poll", !.tool = "diff",
                                   !.already_failed = TRUE]
  /\ UNCHANGED notRunnerVars

\* one turn of the loop: sleep, look for a diff process of the test, and at
\* the limit kill it and fall back or give up
Poll(pid_found) ==
  /\ runner.pc = "poll"
  /\ LET polled == [runner EXCEPT !.idx = @ + 1, !.polls = @ + 1]
     IN IF ~pid_found
        THEN runner' = [polled EXCEPT !.pc = "returned", !.returned = 1,
                                      !.cause = "terminated"]
        ELSE IF timed_out(polled.idx)
        THEN IF polled.already_failed
             THEN runner' = [polled EXCEPT !.kills = @ + 1, !.pc = "returned",
                                           !.returned = 0, !.cause = "timeout"]
             ELSE runner' = [polled EXCEPT !.kills = @ + 1,
                                           !.already_failed = TRUE,
                                           !.tool = "diff", !.fallbacks = @ + 1,
                                           !.idx = 0]
        ELSE runner' = polled
  /\ UNCHANGED notRunnerVars

NextRunner ==
  \/ \E jsondiff_found \in BOOLEAN : StartCompare(jsondiff_found)
  \/ \E pid_found \in BOOLEAN : Poll(pid_found)

SpecRunner == InitRunner /\ [][NextRunner]_vars

\* every os.system, sleep and os.popen of run_compare completes
SpecRunnerLive ==
  /\ SpecRunner
  /\ WF_vars(\E jsondiff_found \in BOOLEAN : StartCompare(jsondiff_found))
  /\ WF_vars(\E pid_found \in BOOLEAN : Poll(pid_found))

\* ------------------------------------------------------------- reading RLP
RECURSIVE from_big_endian(_)
from_big_endian(b) ==
  IF b = <<>> THEN 0 ELSE 256 * from_big_endian(SubSeq(b, 1, Len(b) - 1)) + b[Len(b)]

\* length of the header of the RLP item at the front of b
HeaderLen(b) ==
  IF b[1] < 128 THEN 0
  ELSE IF b[1] <= 183 THEN 1
  ELSE IF b[1] <= 191 THEN 1 + (b[1] - 183)
  ELSE IF b[1] <= 247 THEN 1
  ELSE 1 + (b[1] - 247)

\* length of the payload of the RLP item at the front of b
PayloadLen(b) ==
  IF b[1] < 128 THEN 1
  ELSE IF b[1] <= 183 THEN b[1] - 128
  ELSE IF b[1] <= 191 THEN from_big_endian(SubSeq(b, 2, 1 + (b[1] - 183)))
  ELSE IF b[1] <= 247 THEN b[1] - 192
  ELSE from_big_endian(SubSeq(b, 2, 1 + (b[1] - 247)))

ItemLen(b) == HeaderLen(b) + PayloadLen(b)

ItemPayload(b) == SubSeq(b, HeaderLen(b) + 1, ItemLen(b))

RECURSIVE SplitItems(_)
\* the RLP items that b is the concatenation of
SplitItems(b) ==
  IF b = <<>> THEN <<>>
  ELSE <<SubSeq(b, 1, ItemLen(b))>> \o SplitItems(SubSeq(b, ItemLen(b) + 1, Len(b)))

\* b is exactly one RLP list
IsRlpList(b) == b # <<>> /\ b[1] >= 192 /\ ItemLen(b) = Len(b)

\* b is exactly one RLP byte string
IsRlpString(b) == b # <<>> /\ b[1] < 192 /\ ItemLen(b) = Len(b)

ListItems(b) == SplitItems(ItemPayload(b))

\* ------------------------------------------------------------- properties
LacksDiscriminator(r) == "status" \notin DOMAIN r /\ "root" \notin DOMAIN r

\* positions of the receipts of a list without status and without root
Malformed(l) == {i \in 1..Len(l) : LacksDiscriminator(l[i])}

\* C1: compute_receipts_root of the empty list inserts nothing and returns the
\* hash of the RLP of the blank node, keccak256 of the byte 0x80, which is
\* EMPTY_TRIE_ROOT = 0x56e81f171bcc55a6ff8345e692c0f86e5b48e01b996cadc001622fb5e363b421.
C1_EmptyListRoot ==
  \A c \in Calls :
    (pc[c] = "returned" /\ receipts[c] = <<>>) =>
      /\ index[c] = 0
      /\ mpt[c] = BLANK_NODE
      /\ key[c] = <<>> /\ value[c] = <<>>
      /\ serialize(mpt[c]) = <<128>>
      /\ result[c] = keccak256(<<128>>)
      /\ result[c] = EMPTY_TRIE_ROOT

C1_Witness == \E c \in Calls : pc[c] = "returned" /\ receipts[c] = <<>>

\* C3: a call whose list holds a receipt with neither status nor root never
\* returns a root: the loop does not get past the first such receipt, nothing
\* is inserted for it, and the exception (ValueError) leaves the call, wherever
\* that receipt stands and whatever the others are.
C3_MalformedReceiptRaises ==
  \A c \in Calls :
    Malformed(receipts[c]) # {} =>
      /\ pc[c] # "returned"
      /\ result[c] = NoResult
      /\ \A i \in Malformed(receipts[c]) : index[c] < i
      /\ (pc[c] = "loop" /\ index[c] + 1 \in Malformed(receipts[c])) =>
           /\ ~ReceiptValue_encode(receipts[c][index[c] + 1]).ok
           /\ ReceiptValue_encode(receipts[c][index[c] + 1]).error = "ValueError"
      /\ (pc[c] = "raised" /\ index[c] + 1 \in Malformed(receipts[c])) =>
           error[c] = "ValueError"

C3_Witness ==
  \E c \in Calls :
    /\ pc[c] = "raised"
    /\ index[c] = 1
    /\ error[c] = "ValueError"
    /\ LacksDiscriminator(receipts[c][2])

\* the key of position k as the claim spells it out
PositionKey(k) == IF k = 0 THEN <<128>> ELSE IF k < 128 THEN <<k>> ELSE <<129, k>>

RECURSIVE KeyedTrie(_, _)
\* the trie holding the first n receipts under the keys PositionKey
KeyedTrie(values, n) ==
  IF n = 0 THEN BLANK_NODE
  ELSE trie_set(KeyedTrie(values, n - 1), bytes_to_nibbles(PositionKey(n - 1)),
                ReceiptValue_encode(values[n]).value)

\* C4: the receipt at zero-based position k is inserted under the RLP of k:
\* 0x80 for 0, the byte k for 1..127, 0x81 k for 128..255; the receipt's own
\* transactionIndex plays no part.
C4_KeyIsRlpOfPosition ==
  \A c \in Calls :
    pc[c] # "idle" =>
      /\ index[c] > 0 => key[c] = PositionKey(index[c] - 1)
      /\ mpt[c] = KeyedTrie(receipts[c], index[c])

C4_Witness ==
  \E c \in Calls :
    /\ index[c] = 129
    /\ key[c] = <<129, 128>>
    /\ receipts[c][129].transactionIndex = 7

\* C5: the value of a typed receipt is the type byte followed by the RLP list
\* of the payload, unwrapped; the value of a legacy receipt is the list alone;
\* a receipt and its copy with another type differ by that leading byte only.
C5_TypeByteUnwrapped ==
  \A c \in Calls :
    index[c] > 0 =>
      LET r == receipts[c][index[c]]
          legacy == ReceiptValue_encode([r EXCEPT !.type = 0]).value
      IN /\ IsRlpList(legacy)
         /\ r.type = 0 => value[c] = legacy
         /\ r.type # 0 => (value[c][1] = r.type /\ Tail(value[c]) = legacy)
         /\ \A t \in 1..3 :
              ReceiptValue_encode([r EXCEPT !.type = t]).value = <<t>> \o legacy

C5_Witness ==
  \E c \in Calls :
    /\ index[c] > 0
    /\ receipts[c][index[c]].type = 2
    /\ value[c][1] = 2
    /\ IsRlpList(Tail(value[c]))

\* the RLP list inside an encoded receipt
PayloadOf(r, v) == IF r.type # 0 THEN Tail(v) ELSE v

\* C6: the payload is a list of four items: encode_uint(status) when the
\* receipt has a status (0x80 for 0, 0x01 for 1), encode_bytes(root) only when
\* it has none; then encode_uint(cumulativeGasUsed), encode_bytes(logsBloom)
\* and the list of logs.
C6_PayloadItems ==
  \A c \in Calls :
    index[c] > 0 =>
      LET r == receipts[c][index[c]]
          payload == PayloadOf(r, value[c])
          items == ListItems(payload)
      IN /\ IsRlpList(payload)
         /\ Len(items) = 4
         /\ items[1] = IF "status" \in DOMAIN r
                       THEN (IF r.status = 0 THEN <<128>> ELSE <<r.status>>)
                       ELSE <<128 + Len(r.root)>> \o r.root
         /\ IsRlpString(items[2])
         /\ from_big_endian(ItemPayload(items[2])) = r.cumulativeGasUsed
         /\ items[2] = encode_uint(r.cumulativeGasUsed)
         /\ IsRlpString(items[3])
         /\ ItemPayload(items[3]) = HexBytes(r.logsBloom)
         /\ IsRlpList(items[4])
         /\ Len(ListItems(items[4])) = Len(r.logs)
         /\ items[4] = logs_list(r)

C6_Witness ==
  \E c \in Calls :
    /\ index[c] > 0
    /\ {"status", "root"} \subseteq DOMAIN receipts[c][index[c]]
    /\ receipts[c][index[c]].root # None
    /\ ListItems(PayloadOf(receipts[c][index[c]], value[c]))[1] = <<1>>

Swap(l, i, j) == [l EXCEPT ![i] = l[j], ![j] = l[i]]

\* C7 as claimed: swapping two distinct receipts changes the root.
C7_SwapOfDistinctChangesRoot ==
  \A c \in Calls :
    pc[c] = "returned" =>
      \A i, j \in 1..Len(receipts[c]) :
        (i < j /\ receipts[c][i] # receipts[c][j]) =>
          compute_receipts_root(Swap(receipts[c], i, j)).value # result[c]

\* C7: swapping two receipts changes the root when their encoded values
\* differ; receipts with the same encoded value can be swapped freely.
C7_SwapOfDifferentValuesChangesRoot ==
  \A c \in Calls :
    pc[c] = "returned" =>
      \A i, j \in 1..Len(receipts[c]) :
        i < j =>
          IF ReceiptValue_encode(receipts[c][i]) # ReceiptValue_encode(receipts[c][j])
          THEN compute_receipts_root(Swap(receipts[c], i, j)).value # result[c]
          ELSE receipts[c][i] # receipts[c][j] =>
                 compute_receipts_root(Swap(receipts[c], i, j)).value = result[c]

C7_Witness ==
  \E c \in Calls :
    /\ pc[c] = "returned"
    /\ Len(receipts[c]) = 2
    /\ ReceiptValue_encode(receipts[c][1]) # ReceiptValue_encode(receipts[c][2])
    /\ compute_receipts_root(Swap(receipts[c], 1, 2)).value # result[c]

\* a bloom, log address or topic of another size than 256, 20 and 32 bytes
WrongSize(r) ==
  \/ Len(HexBytes(r.logsBloom)) # 256
  \/ \E i \in 1..Len(r.logs) :
       \/ Len(HexBytes(r.logs[i].address)) # 20
       \/ \E j \in 1..Len(r.logs[i].topics) : Len(HexBytes(r.logs[i].topics[j])) # 32

Unencodable(r) ==
  "status" \notin DOMAIN r /\ ("root" \notin DOMAIN r \/ r.root = None)

C9_CallsAreIndependent ==
  \A c \in Calls :
    LET alone == compute_receipts_root(receipts[c])
    IN /\ pc[c] = "loop" =>
            mpt[c] = trie_loop(BLANK_NODE, 0, SubSeq(receipts[c], 1, index[c])).value
       /\ pc[c] = "returned" => (alone.ok /\ result[c] = alone.value)
       /\ pc[c] = "raised" =>
            (~alone.ok /\ error[c] = alone.error /\ result[c] = NoResult)
       /\ \A d \in Calls :
            (pc[c] = "returned" /\ pc[d] = "returned" /\ receipts[c] = receipts[d])
              => result[c] = result[d]

C9_Witness ==
  /\ \A c \in Calls : pc[c] = "returned" /\ Len(receipts[c]) = 2
  /\ receipts[1] # receipts[2]
  /\ result[1] # result[2]

\* the fields ReceiptValue.encode reads agree
AgreeOnRead(r1, r2) ==
  /\ r1.type = r2.type
  /\ r1.cumulativeGasUsed = r2.cumulativeGasUsed
  /\ r1.logsBloom = r2.logsBloom
  /\ r1.logs = r2.logs
  /\ ("status" \in DOMAIN r1) = ("status" \in DOMAIN r2)
  /\ "status" \in DOMAIN r1 => r1.status = r2.status
  /\ "status" \notin DOMAIN r1 =>
       /\ ("root" \in DOMAIN r1) = ("root" \in DOMAIN r2)
       /\ "root" \in DOMAIN r1 => r1.root = r2.root

ListsAgree(l1, l2) ==
  Len(l1) = Len(l2) /\ \A i \in 1..Len(l1) : AgreeOnRead(l1[i], l2[i])

\* the receipt with its unread fields replaced
WithOtherFields(r, variant) == OtherFields(variant) @@ r

\* C10: blockHash, blockNumber, gasUsed, contractAddress, effectiveGasPrice,
\* from, to, transactionHash and transactionIndex (and root next to a status)
\* do not influence the root: lists that agree position by position on type,
\* status (or root without status), cumulativeGasUsed, logsBloom and logs
\* give the same root.
C10_UnreadFieldsDoNotMatter ==
  /\ \A c, d \in Calls :
       (pc[c] = "returned" /\ pc[d] = "returned" /\ ListsAgree(receipts[c], receipts[d]))
         => result[c] = result[d]
  /\ \A c \in Calls :
       pc[c] = "returned" =>
         \A variant \in {0, 1} :
           LET other == [i \in 1..Len(receipts[c]) |->
                           WithOtherFields(receipts[c][i], variant)]
           IN /\ ListsAgree(receipts[c], other)
              /\ compute_receipts_root(other).value = result[c]

C10_Witness ==
  /\ \A c \in Calls : pc[c] = "returned" /\ Len(receipts[c]) = 2
  /\ receipts[1] # receipts[2]
  /\ ListsAgree(receipts[1], receipts[2])
  /\ receipts[1][1].transactionIndex # receipts[2][1].transactionIndex
  /\ result[1] = result[2]

RECURSIVE CanonicalTrie(_)
\* the trie of the pairs of m, inserted in one fixed order
CanonicalTrie(m) ==
  IF DOMAIN m = {} THEN BLANK_NODE
  ELSE LET k == CHOOSE x \in DOMAIN m : TRUE
       IN setitem(CanonicalTrie([x \in DOMAIN m \ {k} |-> m[x]]), k, m[k])

\* C2: the trie and its root hash depend on the set of pairs only: in whatever
\* order the pairs were inserted, the trie is the one that inserting them in
\* one fixed order gives.
C2_OrderIndependent ==
  /\ trie = CanonicalTrie(entries)
  /\ root_hash(trie) = root_hash(CanonicalTrie(entries))

C2_Witness ==
  /\ DOMAIN entries = TrieKeys
  /\ \E k \in TrieKeys : Len(entries[k]) = 28
  /\ \E k \in TrieKeys : Len(entries[k]) = 1

\* C11: the root a call returns is always the 32-byte keccak256 of the RLP of
\* the root node, also for the empty trie and for a root node whose RLP is
\* shorter than 32 bytes; it is never that RLP itself.
C11_RootAlwaysHashed ==
  \A c \in Calls :
    pc[c] = "returned" =>
      /\ Len(result[c]) = 32
      /\ \A i \in 1..32 : result[c][i] \in 0..255
      /\ result[c] = keccak256(serialize(mpt[c]))
      /\ result[c] # serialize(mpt[c])
      /\ Len(serialize(mpt[c])) < 32 => result[c] # child_ref_encoded(mpt[c])

C11_Witness ==
  \E c \in Calls :
    /\ pc[c] = "returned"
    /\ mpt[c].kind = "leaf"
    /\ Len(serialize(mpt[c])) < 32
    /\ Len(result[c]) = 32

\* the payload f9 01 08, 01, 82 52 08, b9 01 00, 256 zero bytes, c0
SingleTransferPayload ==
  <<249, 1, 8, 1, 130, 82, 8, 185, 1, 0>> \o [i \in 1..256 |-> 0] \o <<192>>

\* C13: for the list of the one legacy success receipt (type 0, status 1,
\* cumulativeGasUsed 21000, 256 zero bloom bytes, no logs) the trie is one leaf
\* with the path nibbles 8, 0 and the 267-byte payload as its value, and the
\* root returned is the hash of that leaf, 0x056b23fb...cf4ca2d2.
C13_SingleTransferLeaf ==
  \A c \in Calls :
    (receipts[c] = <<ETH_TRANSFER_RECEIPT>> /\ index[c] = 1) =>
      /\ Len(value[c]) = 267
      /\ value[c] = SingleTransferPayload
      /\ mpt[c].kind = "leaf"
      /\ mpt[c].path = <<8, 0>>
      /\ mpt[c].value = SingleTransferPayload
      /\ pc[c] = "returned" =>
           /\ result[c] = SingleTransferRoot
           /\ result[c] = keccak256(serialize(Leaf(<<8, 0>>, SingleTransferPayload)))

C13_Witness ==
  \E c \in Calls :
    /\ receipts[c] = <<ETH_TRANSFER_RECEIPT>>
    /\ pc[c] = "returned"
    /\ result[c] = SingleTransferRoot

\* C12: last write wins.  A write of (k, v1) that is followed, after any
\* writes of other keys, by a write of (k, v2) leaves no trace: the trie and
\* its root are those of the trie that never got (k, v1).
C12_LastWriteWins ==
  overwrite.phase = "after" =>
    /\ trie = shadow
    /\ root_hash(trie) = root_hash(shadow)

C12_Witness ==
  /\ overwrite.phase = "after"
  /\ overwrite.key = <<18>>
  /\ trie.kind = "extension"
  /\ trie.sub[1].kind = "branch"
  /\ trie = shadow

RECURSIVE Nodes(_)
\* the node and every node below it
Nodes(n) ==
  {n} \cup (IF n.kind \in {"extension", "branch"}
            THEN UNION {Nodes(n.sub[i]) : i \in 1..Len(n.sub)}
            ELSE {})

\* the remaining keys an insert can reach a node with
KeySuffixes ==
  UNION {{Rest(bytes_to_nibbles(k), n) : n \in 0..(2 * Len(k))} : k \in TrieKeys}

\* number of leading nibbles p and q share
SharedLen(p, q) ==
  CHOOSE n \in 0..Len(p) :
    /\ n <= Len(q)
    /\ SubSeq(p, 1, n) = SubSeq(q, 1, n)
    /\ (n = Len(p) \/ n = Len(q) \/ p[n + 1] # q[n + 1])

\* C19: an insert into a leaf or extension whose path parts from the
\* remaining key after a shared prefix gives an extension over the shared
\* prefix (the branch alone when nothing is shared) whose child is a branch:
\* the rest of the old path and the rest of the key each sit in the slot of
\* their first nibble, and a rest that is empty sits in the branch's value.
C19_SplitIntoExtensionAndBranch ==
  \A n \in Nodes(trie) :
    n.kind \in {"leaf", "extension"} =>
      \A q \in KeySuffixes, v \in TrieValues :
        LET c == SharedLen(n.path, q)
            p1 == Rest(n.path, c)
            q1 == Rest(q, c)
            r == trie_set(n, q, v)
            b == IF c > 0 THEN r.sub[1] ELSE r
            moved == IF n.kind = "leaf" THEN Leaf(Tail(p1), n.value)
                     ELSE IF Len(p1) = 1 THEN n.sub[1]
                     ELSE Extension(Tail(p1), n.sub[1])
        IN (p1 # <<>> \/ (n.kind = "leaf" /\ q1 # <<>>)) =>
             /\ c > 0 => (r.kind = "extension" /\ r.path = SubSeq(q, 1, c))
             /\ b.kind = "branch"
             /\ p1 # <<>> => b.sub[p1[1] + 1] = moved
             /\ p1 = <<>> => b.value = n.value
             /\ q1 # <<>> => b.sub[q1[1] + 1] = Leaf(Tail(q1), v)
             /\ q1 = <<>> => b.value = v
             /\ (p1 # <<>> /\ q1 # <<>>) => b.value = <<>>
             /\ \A i \in 1..16 :
                  ((p1 = <<>> \/ i # p1[1] + 1) /\ (q1 = <<>> \/ i # q1[1] + 1))
                    => b.sub[i] = BLANK_NODE

C19_Witness ==
  /\ trie.kind = "extension"
  /\ trie.path = <<1, 2, 3>>
  /\ trie.sub[1].kind = "branch"
  /\ trie.sub[1].sub[5].kind = "leaf"
  /\ trie.sub[1].sub[6].kind = "leaf"
  /\ trie.sub[1].value = <<>>

\* C20: an insert into a branch with a remaining key sets the slot of the
\* key's first nibble only (a new leaf in an empty slot, the result of the
\* insert into the child otherwise) and keeps the other 15 slots and the
\* value; with no remaining key it sets the value only and keeps the 16 slots.
C20_BranchInsertFrame ==
  \A n \in Nodes(trie) :
    n.kind = "branch" =>
      \A q \in KeySuffixes, v \in TrieValues :
        LET r == trie_set(n, q, v)
        IN /\ r.kind = "branch"
           /\ Len(r.sub) = 16
           /\ q = <<>> => (r.value = v /\ r.sub = n.sub)
           /\ q # <<>> =>
                /\ r.value = n.value
                /\ \A i \in 1..16 : i # q[1] + 1 => r.sub[i] = n.sub[i]
                /\ r.sub[q[1] + 1] =
                     IF n.sub[q[1] + 1] = BLANK_NODE THEN Leaf(Tail(q), v)
                     ELSE trie_set(n.sub[q[1] + 1], Tail(q), v)

C20_Witness ==
  \E n \in Nodes(trie) :
    /\ n.kind = "branch"
    /\ n.value # <<>>
    /\ n.sub[4].kind = "branch"
    /\ n.sub[4].sub[5].kind = "leaf"
    /\ n.sub[4].sub[6].kind = "leaf"

\* C14: in every scan mode the first block whose computed receipts root is not
\* the header's ends the scan: the function returns status 1, and no block is
\* fetched or checked after that one.
C14_MismatchEndsScan ==
  /\ \A i \in 1..Len(blocks) :
       blocks[i].outcome = "mismatch" =>
         /\ i = Len(blocks)
         /\ scan.pc = "returned"
         /\ scan.status = 1
         /\ fetches = blocks[i].fetch_no
  /\ scan.status = 1 =>
       (blocks # <<>> /\ blocks[Len(blocks)].outcome = "mismatch")

C14_Witness ==
  /\ scan.mode = "beyond"
  /\ scan.pc = "returned"
  /\ scan.status = 1
  /\ Len(blocks) = 1
  /\ blocks[1].outcome = "mismatch"
  /\ blocks[1].number = scan.current_block_number + 1
  /\ fetches = 2

\* C15 as claimed: in latest-block mode a block that is the successor of the
\* block scanned before it and whose parentHash is not that block's hash is
\* marked as a reorg, and the scan stops once its receipts have been checked.
C15_SuccessorReorgStopsScan ==
  scan.mode = "latest" =>
    \A i \in 2..Len(blocks) :
      (/\ blocks[i].number = blocks[i - 1].number + 1
       /\ blocks[i].parentHash # blocks[i - 1].hash) =>
        /\ blocks[i].reorg
        /\ blocks[i].outcome # "error" => (i = Len(blocks) /\ scan.pc = "returned")

C17_BatchJudgedWithSameFlag ==
  (validation.pc = "returned" /\ validation.obj.kind = "list") =>
    (validation.returned <=>
       /\ validation.obj.items # <<>>
       /\ \A i \in 1..Len(validation.obj.items) :
            is_valid_jsonrpc_object(validation.obj.items[i],
                                    validation.allow_missing_result_and_error))

\* the failures of connect: every way it ends without being cancelled and
\* without having succeeded
ConnectFailures == {"scheme", "no_ca_file", "ca_file_unreadable",
                    "connect_failed", "not_connected", "block_number_failed"}

\* C18: every failure inside Client.connect (scheme other than ws/wss, wss
\* without CA file, provider connect failure, is_connected() False) reaches
\* the caller as ConnectionError; when connect is rejected for the scheme or
\* the missing CA file, no provider is created, w3 stays None, and a later
\* disconnect() calls nothing and raises nothing.
C18_ConnectFailsWithConnectionError ==
  \A i \in 1..Len(ws) :
    /\ (ws[i].call = "connect" /\ ws[i].cause \in ConnectFailures)
         => ws[i].raised = "ConnectionError"
    /\ (ws[i].call = "connect" /\ ws[i].cause \in {"scheme", "no_ca_file"})
         => /\ ws[i].w3 = NoW3
            /\ \A j \in (i + 1)..Len(ws) :
                 ws[j].call = "disconnect" =>
                   /\ ws[j].raised = ""
                   /\ ~ws[j].provider_disconnect
                   /\ ws[j].w3 = NoW3

C18_Witness ==
  /\ Len(ws) >= 2
  /\ client.scheme = "wss"
  /\ ws[1] = Called("connect", "ConnectionError", "no_ca_file", FALSE, NoW3)
  /\ ws[2] = Called("disconnect", "", "no_provider", FALSE, NoW3)
\* what the claim says stands for child c in its parent
ReferenceTo(c) ==
  LET s == serialize(c)
  IN IF Len(s) <= 31 THEN s ELSE <<128 + 32>> \o keccak256(s)

\* C21: a parent holds a child's own RLP serialization when that is shorter
\* than 32 bytes, and the keccak256 hash of it, as a 32-byte string, when it
\* is 32 bytes or longer: 31 bytes are embedded, 32 bytes are hashed.
C21_ChildEmbeddedBelow32 ==
  \A n \in Nodes(trie) :
    LET items == ListItems(serialize(n))
    IN /\ n.kind = "extension" => items[2] = ReferenceTo(n.sub[1])
       /\ n.kind = "branch" =>
            \A i \in 1..16 :
              n.sub[i] # BLANK_NODE =>
                /\ items[i] = ReferenceTo(n.sub[i])
                /\ Len(serialize(n.sub[i])) >= 32 => Len(items[i]) = 33

C21_Witness ==
  \E n \in Nodes(trie) :
    /\ n.kind = "branch"
    /\ n.sub[3].kind = "leaf"
    /\ n.sub[4].kind = "leaf"
    /\ Len(serialize(n.sub[3])) = 31
    /\ Len(serialize(n.sub[4])) = 32
    /\ LET items == ListItems(serialize(n))
       IN items[3] = serialize(n.sub[3]) /\ Len(items[4]) = 33
\* out is payload under a header of the given base that follows the rule
HeaderRule(out, payload, base) ==
  LET L == Len(payload)
      n == Len(out) - L - 1
  IN IF L <= 55
     THEN out = <<base + L>> \o payload
     ELSE /\ n >= 1
          /\ out[1] = base + 55 + n
          /\ out[2] # 0
          /\ from_big_endian(SubSeq(out, 2, 1 + n)) = L
          /\ SubSeq(out, 2 + n, Len(out)) = payload

\* C22: a byte string that is one byte below 0x80 encodes as itself; else a
\* payload of length L <= 55 follows one byte base + L, and a longer one
\* follows the byte base + 55 + n and the n bytes of L, big-endian without
\* leading zero; base is 0x80 for strings and 0xC0 for lists.
C22_HeaderFollowsLengthRule ==
  codec.pc = "returned" =>
    /\ codec.fn = "encode_bytes" =>
         IF Len(codec.arg) = 1 /\ codec.arg[1] < 128
         THEN codec.returned = codec.arg
         ELSE HeaderRule(codec.returned, codec.arg, 128)
    /\ codec.fn = "encode_list" =>
         HeaderRule(codec.returned, Concat(codec.arg), 192)

C22_Witness ==
  /\ codec.pc = "returned"
  /\ codec.fn = "encode_list"
  /\ Len(Concat(codec.arg)) = 56
  /\ SubSeq(codec.returned, 1, 2) = <<248, 56>>
\* C23: the hex-prefix encoding of n nibbles has n div 2 + 1 bytes; the high
\* nibble of the first is 2 * is_leaf + n mod 2, its low nibble is the first
\* path nibble when n is odd and 0 when n is even; the other path nibbles
\* follow two in a byte, high nibble first; no two inputs give one output.
C23_HexPrefixLayout ==
  (codec.pc = "returned" /\ codec.fn = "hex_prefix") =>
    LET path == codec.arg.nibbles
        n == Len(path)
        out == codec.returned
        others == IF n % 2 = 1 THEN Tail(path) ELSE path
    IN /\ Len(out) = n \div 2 + 1
       /\ out[1] \div 16 = 2 * (IF codec.arg.is_leaf THEN 1 ELSE 0) + (n % 2)
       /\ out[1] % 16 = (IF n % 2 = 1 THEN path[1] ELSE 0)
       /\ \A i \in 1..(Len(others) \div 2) :
            /\ out[1 + i] \div 16 = others[2 * i - 1]
            /\ out[1 + i] % 16 = others[2 * i]
       /\ \A a \in HexPrefixArgs :
            hex_prefix(a.nibbles, a.is_leaf) = out => a = codec.arg

C23_Witness ==
  /\ codec.pc = "returned"
  /\ codec.fn = "hex_prefix"
  /\ codec.arg = [nibbles |-> <<1, 0, 15>>, is_leaf |-> TRUE]
  /\ codec.returned = <<3 * 16 + 1, 15>>
\* C24: with do_not_compare_error set and an 'error' member in both the
\* actual and the expected response, should_ignore_diff returns True, as
\* process_response does, which accepts the pair without comparing errors.
C24_ErrorsNotComparedWhenFlagSet ==
  (/\ compare.pc = "returned"
   /\ compare.do_not_compare_error
   /\ "error" \in DOMAIN compare.actual_response
   /\ "error" \in DOMAIN compare.expected_response) =>
     /\ process_response(compare.actual_response, compare.expected_response,
                         compare.expected_from_file, compare.do_not_compare_error)
     /\ compare.returned = TRUE
\* C25: scan_block_range returns 0 with the shutdown event not set only if
\* for every block number from start_block to end_block the receipts were
\* fetched and the computed root was the header's; a block not found or a
\* failed request does not count.
C25_ZeroMeansAllVerified ==
  (/\ scan.mode = "range"
   /\ scan.pc = "returned"
   /\ scan.status = 0
   /\ ~shutdown) =>
     \A n \in scan.start_block..scan.end_block :
       \E i \in 1..Len(blocks) :
         blocks[i].number = n /\ blocks[i].outcome = "match"
\* C26: once the shutdown event is set, no scan loop asks for another block
\* (the wait for the next-after-latest block included) and the scan
\* eventually returns; a status of 1 always comes from a mismatch, never
\* from the shutdown.
C26_ShutdownStopsScan ==
  /\ [][shutdown => fetches' = fetches]_vars
  /\ (shutdown ~> scan.pc = "returned")
  /\ [](scan.status = 1 =>
          (blocks # <<>> /\ blocks[Len(blocks)].outcome = "mismatch"))

C26_Witness ==
  /\ shutdown
  /\ scan.mode = "beyond"
  /\ scan.pc = "returned"
  /\ scan.status = 0
  /\ scan.current_block_number = 1
  /\ fetches = 2
  /\ blocks = <<>>
RECURSIVE MatchingFrom(_, _, _)
\* the positions, in log order, of the lines from i on that match the method
MatchingFrom(log, method, i) ==
  IF i > Len(log) THEN <<>>
  ELSE (IF matches(log[i], method) THEN <<i>> ELSE <<>>)
         \o MatchingFrom(log, method, i + 1)

\* C27: Player.replay(method) sends the 1st, 2nd, 3rd, ... logged request
\* that matches the method, in log order and each once, and stops only when
\* the log has no further matching request.
C27_ReplaysAllMatching ==
  /\ player.pc \in {"loop", "returned", "raised"} =>
       \E n \in 0..MaxLines :
         player.sent = SubSeq(MatchingFrom(player.log, player.method, 1), 1, n)
  /\ player.pc \in {"returned", "raised"} =>
       player.sent = MatchingFrom(player.log, player.method, 1)
\* number of children and value of a branch that are not empty
Occupied(n) ==
  Cardinality({i \in 1..16 : n.sub[i] # BLANK_NODE})
    + (IF n.value # <<>> THEN 1 ELSE 0)

\* C28: after any inserts into the empty trie no extension has an empty path,
\* the child of every extension is a branch, no leaf holds an empty value, and
\* every branch has at least two of its 16 slots and its value occupied.
C28_TrieIsCanonical ==
  \A n \in Nodes(trie) :
    /\ n.kind = "extension" =>
         /\ n.path # <<>>
         /\ Len(n.sub) = 1
         /\ n.sub[1].kind = "branch"
    /\ n.kind = "leaf" => n.value # <<>>
    /\ n.kind = "branch" =>
         /\ Len(n.sub) = 16
         /\ Occupied(n) >= 2

C28_Witness ==
  /\ trie.kind = "extension"
  /\ trie.path = <<1, 2>>
  /\ trie.sub[1].kind = "branch"
  /\ trie.sub[1].value # <<>>
  /\ Occupied(trie.sub[1]) = 2
  /\ trie.sub[1].sub[4].kind = "leaf"
\* p is q or a beginning of q
IsPrefix(p, q) == Len(p) <= Len(q) /\ SubSeq(q, 1, Len(p)) = p

RECURSIVE LeafCount(_)
\* number of leaves at and below n
LeafCount(n) ==
  CASE n.kind = "leaf" -> 1
    [] n.kind = "blank" -> 0
    [] n.kind = "extension" -> LeafCount(n.sub[1])
    [] n.kind = "branch" ->
         LET below == [i \in 1..16 |-> LeafCount(n.sub[i])]
         IN below[1] + below[2] + below[3] + below[4] + below[5] + below[6]
              + below[7] + below[8] + below[9] + below[10] + below[11] + below[12]
              + below[13] + below[14] + below[15] + below[16]

\* C29: the keys RLP(0), RLP(1), ... of a receipts trie are pairwise distinct
\* and none begins another as a nibble sequence; so while the trie is built
\* no branch holds a value, every receipt inserted sits in a leaf of its own,
\* and no insert overwrites an earlier one.
C29_ReceiptKeysPrefixFree ==
  \A c \in Calls :
    (pc[c] # "idle" /\ index[c] > 0) =>
      /\ LET last == bytes_to_nibbles(index_key(index[c] - 1))
         IN \A i \in 0..(index[c] - 2) :
              LET earlier == bytes_to_nibbles(index_key(i))
              IN ~IsPrefix(earlier, last) /\ ~IsPrefix(last, earlier)
      /\ \A n \in Nodes(mpt[c]) : n.kind = "branch" => n.value = <<>>
      /\ LeafCount(mpt[c]) = index[c]

C29_Witness ==
  \E c \in Calls :
    /\ index[c] = LongLen
    /\ LeafCount(mpt[c]) = LongLen
    /\ key[c] = <<129, LongLen - 1>>
\* the counts and the return value of run_compare are as the claim says
RunCompareBounded ==
  /\ runner.idx <= MAX_TIME
  /\ runner.polls <= 2 * MAX_TIME
  /\ runner.polls = runner.idx + runner.fallbacks * MAX_TIME
  /\ runner.fallbacks <= 1
  /\ runner.kills = runner.fallbacks + (IF runner.cause = "timeout" THEN 1 ELSE 0)
  /\ (runner.pc = "returned" /\ runner.returned = 1) =>
       runner.cause = "terminated"
  /\ (runner.pc = "returned" /\ runner.returned = 0) =>
       \/ runner.cause = "unavailable" /\ runner.use_jsondiff /\ runner.polls = 0
       \/ /\ runner.cause = "timeout"
          /\ runner.tool = "diff"
          /\ runner.idx = MAX_TIME

\* C30: run_compare always returns; it polls at most MAX_TIME times for each
\* tool and kills the tool that still runs then, falls back from json-diff to
\* diff at most once, returns 1 at the first poll that finds no diff process,
\* and returns 0 only when json-diff is not there or plain diff has timed
\* out; it never polls more than 2 * MAX_TIME times.
C30_RunCompareTerminates ==
  /\ []RunCompareBounded
  /\ <>(runner.pc = "returned")

C30_Witness ==
  /\ runner.pc = "returned"
  /\ runner.returned = 0
  /\ runner.use_jsondiff
  /\ runner.cause = "timeout"
  /\ runner.fallbacks = 1
  /\ runner.kills = 2
  /\ runner.polls = 2 * MAX_TIME
====
